---- MODULE Spec2Model ----
(***************************************************************************)
(* Interactive drawing, snapping, selection and deletion of map shapes:    *)
(* EntityManager, DrawManager and SelectionManager as one state machine.   *)
(* One action per API call or input-event handler.                         *)
(***************************************************************************)
EXTENDS Integers, Sequences, FiniteSets, TLC

\* ---------------------------------------------------------------- bounds
\* longest draft buffer an input event may produce
MaxDraft == 4
\* most entities the viewer holds when a draw is started
MaxEntities == 4
\* most keydown (Delete) listeners registered by enableSelect
MaxEnables == 2
\* the same where shapes are drawn and then selected by dragging
MaxSelectEnables == 4
\* most vertices a lasso drag captures
MaxLasso == 3
\* most times highlight is applied before it is removed
MaxOns == 2

\* ------------------------------------------------------ program constants
DefaultPixelTolerance == 20
\* metres a lasso vertex must be from the last one
LassoThreshold == 10

NoEntity == 0
NoMode == "none"
Modes == {"point", "polyline", "polygon", "rectangle", "circle"}
SelectionModes == {"pointer", "rectangle", "lasso"}

\* Screen positions input events carry. OffGlobe has no world position
\* (screenToCartographic returns null); the camera is fixed top-down, so a
\* pixel <<x, y>> on the globe is the world position longitude x, latitude y.
OffGlobe == <<-1, -1>>
ScreenPts == {<<0, 0>>, <<30, 25>>}
ScreenInputs == ScreenPts \cup {OffGlobe}
\* the same with a pixel 15 px from <<0, 0>>, inside the default tolerance
DrawInputs == ScreenInputs \cup {<<15, 0>>}
\* the positions of a selection drag: the two pixels, one away from both, OffGlobe
SelectInputs == ScreenInputs \cup {<<30, 0>>}

\* A Cartesian3 object: its identity (ref) and its coordinates (p).
V(r, q) == [ref |-> r, p |-> q]

minPoints == [point |-> 1, polyline |-> 2, polygon |-> 3, rectangle |-> 2, circle |-> 2]

VARIABLES
  viewerEntities,   \* viewer.entities: ids of the rendered entities
  handler,          \* DrawManager.handler: the session's ScreenSpaceEventHandler is installed
  activeEntity,     \* DrawManager.activeEntity
  activeMode,       \* DrawManager.activeMode
  cleanupFns,       \* DrawManager.cleanupFns: number of registered Escape listeners
  allVertices,      \* DrawManager.allVertices
  allGeometries,    \* DrawManager.allGeometries
  entityToRecord,   \* DrawManager.entityToRecord
  defaultOptions,   \* DrawManager.defaultOptions
  draftPositions,   \* startDraw closure: draftPositions
  previewPoint,     \* startDraw closure: previewPoint
  opts,             \* startDraw closure: opts
  promise,          \* the deferred result of the most recent draw call
  selectHandler,    \* SelectionManager.selectHandler: mode whose handler is installed
  isSelecting,      \* SelectionManager.isSelecting
  selectionMode,    \* SelectionManager.selectionMode
  selectedEntities, \* SelectionManager.selectedEntities
  storedGeometries, \* SelectionManager.storedGeometries
  deleteListeners,  \* window keydown listeners added by enableSelect
  liveSelectHandlers, \* ScreenSpaceEventHandlers the selection modes created and did not destroy
  modeChanged,      \* what onModeChanged last reported: a mode, "null", or "unset" before any report
  isDrawing,        \* rectangle / lasso closure: isDrawing
  dragPositions,    \* rectangle / lasso closure: positions (world coordinates)
  previewEntity,    \* rectangle / lasso closure: previewEntity
  camera,           \* screenSpaceCameraController: enableRotate, enableTranslate, enableZoom
  highlighted,      \* entities that carry the highlight style
  probe,            \* one entity's graphics and its selectionStyles stash, for setHighlight
  clicks,           \* primary-clicks accepted in the current session
  finishReqs,       \* finish requests that added a vertex to the draft, in the session
  preSession,       \* the registry and vertex index when the most recent session started
  deletedInSession, \* a deletion was committed while that session was capturing
  last,             \* the operation that just ended a session or deleted shapes, if any
  observed          \* what a 'selectionChanged' listener saw during the deletion just made

drawVars == <<handler, activeEntity, activeMode, cleanupFns, draftPositions, previewPoint, opts>>
regVars == <<allVertices, allGeometries, entityToRecord, storedGeometries>>
closureVars == <<isDrawing, dragPositions, previewEntity>>
handlerVars == <<selectHandler, isSelecting, selectionMode, deleteListeners, liveSelectHandlers,
                 modeChanged>>
modeVars == <<handlerVars, closureVars>>
selVars == <<selectHandler, isSelecting, selectionMode, selectedEntities, deleteListeners,
             liveSelectHandlers, modeChanged, closureVars, camera, highlighted, probe>>
histVars == <<clicks, finishReqs, preSession, deletedInSession, last, observed>>
vars == <<viewerEntities, drawVars, regVars, selVars, defaultOptions, promise, histVars>>

\* ------------------------------------------------------------- utilities
Min(a, b) == IF a < b THEN a ELSE b
Max(a, b) == IF a > b THEN a ELSE b

\* floor of the square root
ISqrt(n) == CHOOSE k \in 0..n : k * k <= n /\ (k + 1) * (k + 1) > n

\* n1/d1 < n2/d2 for non-negative fractions, without large products
FracLess(n1, d1, n2, d2) ==
  LET q1 == n1 \div d1
      q2 == n2 \div d2
  IN IF q1 # q2 THEN q1 < q2 ELSE (n1 % d1) * d2 < (n2 % d2) * d1

Dist2(a, b) == (a[1] - b[1]) * (a[1] - b[1]) + (a[2] - b[2]) * (a[2] - b[2])

RefsOf(s) == {s[i].ref : i \in DOMAIN s}

\* the smallest identity not in use
Fresh(used) ==
  CHOOSE n \in 1..(Cardinality(used) + 1) : n \notin used /\ \A m \in 1..(n - 1) : m \in used

\* vertices of a record, in the order removeFromSnapData collects them
RecVerts(r) == r.positions \o r.corners \o r.center

RegistryRefs ==
  RefsOf(allVertices)
    \cup UNION {RefsOf(RecVerts(allGeometries[i])) : i \in DOMAIN allGeometries}
    \cup UNION {RefsOf(RecVerts(storedGeometries[i].record)) : i \in DOMAIN storedGeometries}
    \cup UNION {RefsOf(RecVerts(m.record)) : m \in entityToRecord}

UsedEntities ==
  viewerEntities \cup selectedEntities \cup {m.entity : m \in entityToRecord}
    \cup {storedGeometries[i].entity : i \in DOMAIN storedGeometries}
    \cup ({activeEntity, previewPoint, previewEntity} \ {NoEntity})

\* ------------------------------------------------------ coordinate bridge
\* getWorldPosition: <<>> for null, else the world position of the pixel
getWorldPosition(screenPos) == IF screenPos = OffGlobe THEN <<>> ELSE <<screenPos>>

\* scene.cartesianToCanvasCoordinates: the pixel of a world position
cartesianToCanvasCoordinates(v) == <<v.p>>

\* ------------------------------------------------------------- snapping
\* the update of best in snapToVertices: vertex is at the squared pixel distance
\* dist of the cursor
closerVertex(best, vertex, tol, dist) ==
  IF dist <= tol * tol /\ (best = <<>> \/ dist < best[1].dist)
  THEN <<[dist |-> dist, vertex |-> vertex]>>
  ELSE best

RECURSIVE snapToVerticesLoop(_, _, _, _, _)
snapToVerticesLoop(screenPos, vertices, tol, i, best) ==
  IF i > Len(vertices) THEN best
  ELSE IF cartesianToCanvasCoordinates(vertices[i]) = <<>>
       THEN snapToVerticesLoop(screenPos, vertices, tol, i + 1, best)
       ELSE snapToVerticesLoop(screenPos, vertices, tol, i + 1,
                               closerVertex(best, vertices[i], tol,
                                            Dist2(cartesianToCanvasCoordinates(vertices[i])[1],
                                                  screenPos)))

\* best?.vertex ?? null
bestVertex(best) == IF best = <<>> THEN <<>> ELSE <<best[1].vertex>>

\* snapToVertices: the closest vertex within tolerance (the first one on a tie),
\* the very object of the list; <<>> for null. Distances are compared squared.
snapToVertices(screenPos, vertices, snap) ==
  bestVertex(snapToVerticesLoop(screenPos, vertices, snap.pixelTolerance, 1, <<>>))

\* EllipsoidGeodesic.interpolateUsingFraction(tn / td) between a and b, on the
\* flat top-down model, rounded down to whole coordinates
interpolateUsingFraction(a, b, tn, td) ==
  <<a[1] + ((tn * (b[1] - a[1])) \div td), a[2] + ((tn * (b[2] - a[2])) \div td)>>

\* the point at dist > 0 from c towards g moved to the distance radius
scaleToRadius(c, g, radius, dist) ==
  <<c[1] + (((g[1] - c[1]) * radius) \div dist), c[2] + (((g[2] - c[2]) * radius) \div dist)>>

\* EllipsoidGeodesic(center, guess).interpolateUsingSurfaceDistance(radius)
interpolateUsingSurfaceDistance(c, g, radius) ==
  IF Dist2(c, g) = 0 THEN <<c[1], c[2] + radius>>
  ELSE scaleToRadius(c, g, radius, ISqrt(Dist2(c, g)))

\* an update of best that takes the latest edge within tolerance
closerEdgeLatest(best, A, B, tol, newRef, segLen2, tn, n, d) ==
  IF n <= tol * tol * d
  THEN <<[n |-> n, d |-> d, pos |-> V(newRef, interpolateUsingFraction(A.p, B.p, tn, segLen2))]>>
  ELSE best

\* the update of best in checkEdge: the projection is at the fraction tn / segLen2
\* of the edge and its squared pixel distance to the cursor is n / d
closerEdge(best, A, B, tol, newRef, segLen2, tn, n, d) ==
  IF n <= tol * tol * d /\ (best = <<>> \/ FracLess(n, d, best[1].n, best[1].d))
  THEN <<[n |-> n, d |-> d, pos |-> V(newRef, interpolateUsingFraction(A.p, B.p, tn, segLen2))]>>
  ELSE best

\* the clamped projection of checkEdge: t = dot / segLen2 clamped to [0, 1]
checkProjection(best, A, B, ca, cb, screenPos, tol, newRef, segLen2, dot, cross) ==
  IF dot <= 0 THEN closerEdge(best, A, B, tol, newRef, segLen2, 0, Dist2(screenPos, ca), 1)
  ELSE IF dot >= segLen2
       THEN closerEdge(best, A, B, tol, newRef, segLen2, segLen2, Dist2(screenPos, cb), 1)
       ELSE closerEdge(best, A, B, tol, newRef, segLen2, dot, cross * cross, segLen2)

\* checkEdge on the canvas points ca, cb of A and B
checkSegment(best, A, B, ca, cb, screenPos, tol, newRef) ==
  IF Dist2(cb, ca) = 0 THEN best
  ELSE checkProjection(best, A, B, ca, cb, screenPos, tol, newRef, Dist2(cb, ca),
                       (screenPos[1] - ca[1]) * (cb[1] - ca[1])
                         + (screenPos[2] - ca[2]) * (cb[2] - ca[2]),
                       (screenPos[1] - ca[1]) * (cb[2] - ca[2])
                         - (screenPos[2] - ca[2]) * (cb[1] - ca[1]))

\* checkEdge of snapToBoundaries: best is <<>> or <<[n, d, pos]>>, the squared
\* distance being n / d
checkEdge(best, A, B, screenPos, tol, newRef) ==
  IF cartesianToCanvasCoordinates(A) = <<>> \/ cartesianToCanvasCoordinates(B) = <<>> THEN best
  ELSE checkSegment(best, A, B, cartesianToCanvasCoordinates(A)[1],
                    cartesianToCanvasCoordinates(B)[1], screenPos, tol, newRef)

\* the update of best in the perimeter branch: onCircleXyz is at the squared
\* pixel distance dist of the cursor
closerPerimeter(best, onCircleXyz, tol, dist) ==
  IF dist <= tol * tol /\ (best = <<>> \/ FracLess(dist, 1, best[1].n, best[1].d))
  THEN <<[n |-> dist, d |-> 1, pos |-> onCircleXyz]>>
  ELSE best

\* the perimeter branch on the point onCircleXyz of the circle
checkPerimeter(best, geom, onCircleXyz, screenPos, tol) ==
  IF cartesianToCanvasCoordinates(geom.center[1]) = <<>>
       \/ cartesianToCanvasCoordinates(onCircleXyz) = <<>>
  THEN best
  ELSE closerPerimeter(best, onCircleXyz, tol,
                       Dist2(cartesianToCanvasCoordinates(onCircleXyz)[1], screenPos))

\* the perimeter branch of snapToBoundaries for one circle
checkCircle(best, geom, screenPos, worldGuess, tol, newRef) ==
  checkPerimeter(best, geom,
                 V(newRef, interpolateUsingSurfaceDistance(geom.center[1].p, worldGuess.p,
                                                           geom.radiusMeters)),
                 screenPos, tol)

RECURSIVE checkEdges(_, _, _, _, _, _, _)
\* checkEdge over verts[i], verts[i+1] for i = from .. Len(verts) - 1, then the
\* closing edge when closed
checkEdges(best, verts, i, closed, screenPos, tol, newRef) ==
  IF i <= Len(verts) - 1 \/ (closed /\ Len(verts) >= 2 /\ i = Len(verts))
  THEN checkEdges(checkEdge(best, verts[i], verts[(i % Len(verts)) + 1], screenPos, tol, newRef),
                  verts, i + 1, closed, screenPos, tol, newRef)
  ELSE best

\* the loop body of snapToBoundaries for one completed geometry
checkGeometry(best, geom, screenPos, worldGuess, snap, newRef) ==
  IF geom.kind \in {"polyline", "polygon", "rectangle"}
  THEN checkEdges(best, IF geom.kind = "rectangle" THEN geom.corners ELSE geom.positions,
                  1, geom.kind # "polyline", screenPos, snap.pixelTolerance, newRef)
  ELSE IF geom.kind = "circle" /\ snap.toCirclePerimeter
       THEN checkCircle(best, geom, screenPos, worldGuess, snap.pixelTolerance, newRef)
       ELSE best

RECURSIVE checkGeometries(_, _, _, _, _, _, _)
checkGeometries(best, geoms, i, screenPos, worldGuess, snap, newRef) ==
  IF i > Len(geoms) THEN best
  ELSE checkGeometries(checkGeometry(best, geoms[i], screenPos, worldGuess, snap, newRef),
                       geoms, i + 1, screenPos, worldGuess, snap, newRef)

\* best?.pos ?? null
bestPos(best) == IF best = <<>> THEN <<>> ELSE <<best[1].pos>>

\* the edges of the current drawing anchors
checkAnchors(screenPos, worldGuess, anchorVerts, snap) ==
  IF snap.toEdges /\ Len(anchorVerts) >= 2
  THEN checkEdges(<<>>, anchorVerts, 1, FALSE, screenPos, snap.pixelTolerance, worldGuess.ref)
  ELSE <<>>

\* snapToBoundaries: the closest edge or perimeter point within tolerance, a new
\* object (it takes the identity of the world guess it replaces); <<>> for null
snapToBoundaries(screenPos, worldGuess, anchorVerts, snap) ==
  bestPos(checkGeometries(checkAnchors(screenPos, worldGuess, anchorVerts, snap),
                          allGeometries, 1, screenPos, worldGuess, snap, worldGuess.ref))

\* the locked vertices of the draft: all but the trailing preview
anchors(mode, positions) ==
  IF mode \in {"polyline", "polygon"} THEN SubSeq(positions, 1, Max(0, Len(positions) - 1))
  ELSE <<>>

\* vertices first, then edges and perimeters, else the guess
firstSnapVertexFirst(edgeSnap, vertexSnap, worldPos) ==
  IF vertexSnap # <<>> THEN vertexSnap[1]
  ELSE IF edgeSnap # <<>> THEN edgeSnap[1]
  ELSE worldPos

\* edges and perimeters first, then vertices, else the guess
firstSnap(edgeSnap, vertexSnap, worldPos) ==
  IF edgeSnap # <<>> THEN edgeSnap[1]
  ELSE IF vertexSnap # <<>> THEN vertexSnap[1]
  ELSE worldPos

\* applySnapping
applySnapping(screenPos, worldPos, mode, positions, o) ==
  IF ~o.enabled THEN worldPos
  ELSE firstSnap(snapToBoundaries(screenPos, worldPos, anchors(mode, positions), o),
                 snapToVertices(screenPos, anchors(mode, positions) \o allVertices, o),
                 worldPos)

\* isNearFirstVertex: the polygon auto-close test
isNearFirstVertex(firstVertex, screenPos, o) ==
  LET firstCanvas == cartesianToCanvasCoordinates(firstVertex)
  IN IF firstCanvas = <<>> THEN FALSE
     ELSE Dist2(firstCanvas[1], screenPos) <= o.pixelTolerance * o.pixelTolerance

\* ------------------------------------------------------------- registry
Registry ==
  [allGeometries |-> allGeometries, entityToRecord |-> entityToRecord,
   storedGeometries |-> storedGeometries, allVertices |-> allVertices]

RECURSIVE FreshN(_, _)
\* k identities not in use, smallest first
FreshN(used, k) ==
  IF k = 0 THEN <<>> ELSE <<Fresh(used)>> \o FreshN(used \cup {Fresh(used)}, k - 1)

\* EllipsoidGeodesic.surfaceDistance on the flat model, in whole metres
surfaceDistance(a, b) == ISqrt(Dist2(a, b))

EmptyRecord(rid, kind) ==
  [rid |-> rid, kind |-> kind, positions |-> <<>>, corners |-> <<>>, center |-> <<>>,
   radiusMeters |-> 0]

\* four corners that start at the first captured point
rectangleCornersFromFirst(c1, c2, r) ==
  <<V(r[1], <<c1[1], c1[2]>>), V(r[2], <<c1[1], c2[2]>>),
    V(r[3], <<c2[1], c2[2]>>), V(r[4], <<c2[1], c1[2]>>)>>

\* the corners recordGeometry derives from the captured points c1 and c2 (x is
\* the longitude, y the latitude; picked points lie on the ellipsoid, so the
\* averaged height is 0); r holds the identities of the four new objects
rectangleCorners(c1, c2, r) ==
  <<V(r[1], <<Min(c1[1], c2[1]), Min(c1[2], c2[2])>>),
    V(r[2], <<Min(c1[1], c2[1]), Max(c1[2], c2[2])>>),
    V(r[3], <<Max(c1[1], c2[1]), Max(c1[2], c2[2])>>),
    V(r[4], <<Max(c1[1], c2[1]), Min(c1[2], c2[2])>>)>>

\* a radius that is the bare surface distance
radiusMetersUnclamped(c1, c2) == surfaceDistance(c1, c2)

\* the radius recordGeometry derives from the captured points c1 and c2
radiusMeters(c1, c2) == Max(1, surfaceDistance(c1, c2))

\* recordGeometry: the record of a finished drawing and the vertices it pushes to
\* allVertices. rid is the record object's identity, used the new corner identities.
recordGeometry(mode, positions, rid, used) ==
  CASE mode = "point" ->
         [record |-> [EmptyRecord(rid, "point") EXCEPT !.positions = <<positions[1]>>],
          pushed |-> <<positions[1]>>]
    [] mode \in {"polyline", "polygon"} ->
         [record |-> [EmptyRecord(rid, mode) EXCEPT !.positions = positions],
          pushed |-> positions]
    [] mode = "rectangle" ->
         LET corners == rectangleCorners(positions[1].p, positions[Len(positions)].p,
                                         FreshN(used, 4))
         IN [record |-> [EmptyRecord(rid, "rectangle") EXCEPT !.corners = corners],
             pushed |-> corners]
    [] mode = "circle" ->
         [record |-> [EmptyRecord(rid, "circle") EXCEPT
                        !.center = <<positions[1]>>,
                        !.radiusMeters = radiusMeters(positions[1].p,
                                                      positions[Len(positions)].p)],
          pushed |-> <<positions[1]>>]

\* entityToRecord.set on the set of its entries
MapSet(map, entity, record) ==
  {x \in map : x.entity # entity} \cup {[entity |-> entity, record |-> record]}

\* removeFromSnapData for the entities of a set: their records leave
\* allGeometries and entityToRecord, and every allVertices element that is one
\* of their vertex objects is filtered out
\* a removal that also strips the removed vertex objects from the records left
removeFromSnapDataGeometriesStripping(geoms, map, entities) ==
  LET gone == UNION {RefsOf(RecVerts(m.record)) : m \in {x \in map : x.entity \in entities}}
      left == SelectSeq(geoms, LAMBDA g : ~\E m \in map : m.entity \in entities /\ m.record.rid = g.rid)
  IN [i \in DOMAIN left |->
        [left[i] EXCEPT !.positions = SelectSeq(left[i].positions, LAMBDA v : v.ref \notin gone)]]

removeFromSnapDataGeometries(geoms, map, entities) ==
  SelectSeq(geoms, LAMBDA g : ~\E m \in map : m.entity \in entities /\ m.record.rid = g.rid)

removeFromSnapDataVertices(verts, map, entities) ==
  LET vertsToRemove == UNION {RefsOf(RecVerts(m.record)) : m \in {x \in map : x.entity \in entities}}
  IN SelectSeq(verts, LAMBDA v : v.ref \notin vertsToRemove)

removeFromSnapDataMap(map, entities) == {m \in map : m.entity \notin entities}

\* -------------------------------------------------------------- options
InitialOptions ==
  [enabled |-> TRUE, pixelTolerance |-> DefaultPixelTolerance, toVertices |-> TRUE,
   toFirstVertex |-> TRUE, toEdges |-> TRUE, toCirclePerimeter |-> TRUE,
   autoClosePolygon |-> TRUE]

\* partial options a caller passes: the fields it gives
OptionInputs == {[enabled |-> FALSE], [enabled |-> TRUE],
                 [autoClosePolygon |-> FALSE], [autoClosePolygon |-> TRUE]}

\* a merge that replaces: the fields not given fall back to the initial values
mergeOptionsReplacing(defaults, options) ==
  [f \in DOMAIN defaults |-> IF f \in DOMAIN options THEN options[f] ELSE InitialOptions[f]]

\* mergeOptions / setOptions: the given fields override, the others are kept
mergeOptions(defaults, options) ==
  [f \in DOMAIN defaults |-> IF f \in DOMAIN options THEN options[f] ELSE defaults[f]]

NoOptions == [f \in {} |-> FALSE]

\* partial options a draw call passes
CallOptions == {NoOptions, [enabled |-> FALSE], [autoClosePolygon |-> FALSE]}

EmptyRegistry ==
  [allGeometries |-> <<>>, entityToRecord |-> {}, storedGeometries |-> <<>>, allVertices |-> <<>>]

Did(op, mode, c, f, entities) ==
  [op |-> op, mode |-> mode, clicks |-> c, finishReqs |-> f, entities |-> entities,
   region |-> <<>>]
NoLast == Did("none", NoMode, 0, 0, {})

\* screenSpaceCameraController with rotate, translate and zoom all on / all off
CameraEnabled == [enableRotate |-> TRUE, enableTranslate |-> TRUE, enableZoom |-> TRUE]
CameraDisabled == [enableRotate |-> FALSE, enableTranslate |-> FALSE, enableZoom |-> FALSE]

\* no entity is under the setHighlight probe
NoProbe == [kind |-> "none"]

\* the state after construction, but for the probe
InitProgram ==
  /\ viewerEntities = {}
  /\ handler = FALSE
  /\ activeEntity = NoEntity
  /\ activeMode = NoMode
  /\ cleanupFns = 0
  /\ allVertices = <<>>
  /\ allGeometries = <<>>
  /\ entityToRecord = {}
  /\ defaultOptions = InitialOptions
  /\ draftPositions = <<>>
  /\ previewPoint = NoEntity
  /\ opts = InitialOptions
  /\ promise = "none"
  /\ selectHandler = "none"
  /\ isSelecting = FALSE
  /\ selectionMode = "pointer"
  /\ selectedEntities = {}
  /\ storedGeometries = <<>>
  /\ deleteListeners = 0
  /\ liveSelectHandlers = 0
  /\ modeChanged = "unset"
  /\ isDrawing = FALSE
  /\ dragPositions = <<>>
  /\ previewEntity = NoEntity
  /\ camera = CameraEnabled
  /\ highlighted = {}
  /\ clicks = 0
  /\ finishReqs = 0
  /\ preSession = EmptyRegistry
  /\ deletedInSession = FALSE
  /\ last = NoLast
  /\ observed = <<>>

Init == InitProgram /\ probe = NoProbe

\* ---------------------------------------------------- SelectionManager
\* the closure of a selection handler just created, or of none
newClosure ==
  /\ isDrawing' = FALSE
  /\ dragPositions' = <<>>
  /\ previewEntity' = NoEntity

\* a disableSelect that keeps the selection whatever its argument
disableSelectKeeping(clear) ==
  /\ isSelecting' = FALSE
  /\ selectHandler' = "none"
  /\ liveSelectHandlers' = IF selectHandler # "none" THEN liveSelectHandlers - 1
                           ELSE liveSelectHandlers
  /\ newClosure
  /\ UNCHANGED <<selectedEntities, highlighted>>
  /\ modeChanged' = "null"
  /\ UNCHANGED <<selectionMode, deleteListeners>>

\* disableSelect: the handler is destroyed, and with it the closure of its
\* callbacks; the keydown listener stays; onModeChanged(null)
disableSelect(clear) ==
  /\ isSelecting' = FALSE
  /\ selectHandler' = "none"
  /\ liveSelectHandlers' = IF selectHandler # "none" THEN liveSelectHandlers - 1
                           ELSE liveSelectHandlers
  /\ newClosure
  /\ selectedEntities' = IF clear THEN {} ELSE selectedEntities
  /\ highlighted' = IF clear THEN highlighted \ selectedEntities ELSE highlighted
  /\ modeChanged' = "null"
  /\ UNCHANGED <<selectionMode, deleteListeners>>

\* an enableSelect that does not destroy the handler in place
enableSelectStacking(mode) ==
  IF isSelecting /\ selectionMode = mode
  THEN UNCHANGED <<isSelecting, selectionMode, selectHandler, deleteListeners,
                   liveSelectHandlers, modeChanged, closureVars>>
  ELSE /\ isSelecting' = TRUE
       /\ selectionMode' = mode
       /\ selectHandler' = mode
       /\ liveSelectHandlers' = liveSelectHandlers + 1
       /\ newClosure
       /\ deleteListeners' = deleteListeners + 1
       /\ modeChanged' = mode

\* enableSelect: disableSelect(false), the mode's handler, one more keydown
\* listener, onModeChanged(mode)
enableSelect(mode) ==
  IF isSelecting /\ selectionMode = mode
  THEN UNCHANGED <<isSelecting, selectionMode, selectHandler, deleteListeners,
                   liveSelectHandlers, modeChanged, closureVars>>
  ELSE /\ isSelecting' = TRUE
       /\ selectionMode' = mode
       /\ selectHandler' = mode
       /\ liveSelectHandlers' = (IF selectHandler # "none" THEN liveSelectHandlers - 1
                                 ELSE liveSelectHandlers) + 1
       /\ newClosure
       /\ deleteListeners' = deleteListeners + 1
       /\ modeChanged' = mode

\* clearSelection: every selected entity loses the highlight and the selection
clearSelection ==
  /\ highlighted' = highlighted \ selectedEntities
  /\ selectedEntities' = {}

\* a selectEntity that is additive: the selection is kept and the entity toggled
selectEntityAdditive(entity) ==
  /\ selectedEntities' = IF entity = NoEntity THEN selectedEntities
                         ELSE IF entity \in selectedEntities THEN selectedEntities \ {entity}
                         ELSE selectedEntities \cup {entity}
  /\ highlighted' = IF entity = NoEntity THEN highlighted
                    ELSE IF entity \in selectedEntities THEN highlighted \ {entity}
                    ELSE highlighted \cup {entity}

\* selectEntity(entity, additive = false): the selection is cleared, then the
\* entity, no longer in it, is added and highlighted
selectEntity(entity) ==
  /\ selectedEntities' = IF entity = NoEntity THEN {} ELSE {entity}
  /\ highlighted' = (highlighted \ selectedEntities)
                      \cup (IF entity = NoEntity THEN {} ELSE {entity})

\* a selectMultiple that leaves the highlight of the previous selection on
selectMultipleKeepingHighlight(entities) ==
  /\ selectedEntities' = entities
  /\ highlighted' = highlighted \cup entities

\* selectMultiple
selectMultiple(entities) ==
  /\ selectedEntities' = entities
  /\ highlighted' = (highlighted \ selectedEntities) \cup entities

\* ----------------------------------------------------------- setHighlight
\* A style property of an entity's graphics reads as <<>> when it is unset and
\* as <<v>>, a property object holding v, when it is set; a property object is
\* truthy whatever it holds.
GraphicsKinds == {"point", "polyline", "polygon", "rectangle", "ellipse"}

\* the styles of the entity setHighlight is applied to, by the kind of its graphics
InitialGraphics(kind) ==
  CASE kind = "point" ->
         [color : {<<>>, <<"CYAN">>}, pixelSize : {<<>>, <<12>>},
          outlineColor : {<<>>, <<"BLACK">>}, outlineWidth : {<<>>, <<1>>}]
    [] kind = "polyline" ->
         [material : {<<>>, <<"CYAN">>}, width : {<<>>, <<4>>}]
    [] OTHER ->
         [outlineColor : {<<>>, <<"DARKCYAN">>}, material : {<<>>, <<"CYAN">>},
          outline : {<<>>, <<FALSE>>, <<TRUE>>}]

\* the property whose stash entry decides whether highlight off restores
guardProperty(kind) ==
  CASE kind = "point" -> "color"
    [] kind = "polyline" -> "material"
    [] OTHER -> "outlineColor"

\* Number(value ?? fallback) of a style property
numberOr(value, fallback) == IF value = <<>> THEN fallback ELSE value[1]

\* the value highlight on gives a property
highlightValue(kind, property, value) ==
  CASE kind = "point" /\ property = "color" -> "ORANGE"
    [] kind = "point" /\ property = "pixelSize" -> Max(10, numberOr(value, 8))
    [] kind = "point" /\ property = "outlineColor" -> "WHITE"
    [] kind = "point" /\ property = "outlineWidth" -> 2
    [] kind = "polyline" /\ property = "material" -> "ORANGE"
    [] kind = "polyline" /\ property = "width" -> Max(5, numberOr(value, 2))
    [] property = "outline" -> TRUE
    [] property = "outlineColor" -> "ORANGE"
    [] property = "material" -> "ORANGE_02"

\* setHighlight(entity, true): each property is stashed unless its stash entry
\* is truthy, then overridden
setHighlightOn(kind, graphics, stash) ==
  [graphics |-> [p \in DOMAIN graphics |-> <<highlightValue(kind, p, graphics[p])>>],
   stash |-> [p \in DOMAIN graphics |-> IF stash[p] = <<>> THEN graphics[p] ELSE stash[p]]]

\* setHighlight(entity, false): when the guard property's stash entry is truthy
\* it is restored, and each other property whose stash entry is not undefined;
\* the stash is deleted
setHighlightOff(kind, graphics, stash) ==
  [graphics |-> IF stash[guardProperty(kind)] # <<>>
                THEN [p \in DOMAIN graphics |-> IF stash[p] # <<>> THEN stash[p] ELSE graphics[p]]
                ELSE graphics,
   stash |-> [p \in DOMAIN graphics |-> <<>>]]

\* an entity of some kind and style, not highlighted, with an empty stash
InitHighlight ==
  /\ InitProgram
  /\ \E kind \in GraphicsKinds :
       \E graphics \in InitialGraphics(kind) :
         probe = [kind |-> kind, original |-> graphics, graphics |-> graphics,
                  stash |-> [p \in DOMAIN graphics |-> <<>>], ons |-> 0, offs |-> 0]

\* what the highlight steps leave alone
highlightFrame ==
  <<viewerEntities, drawVars, regVars, handlerVars, closureVars, selectedEntities, camera,
    highlighted, defaultOptions, promise, histVars>>

\* setHighlight(entity, true) on the probed entity
HighlightOn ==
  /\ probe.ons < MaxOns
  /\ probe' = [probe EXCEPT
                 !.graphics = setHighlightOn(probe.kind, probe.graphics, probe.stash).graphics,
                 !.stash = setHighlightOn(probe.kind, probe.graphics, probe.stash).stash,
                 !.ons = probe.ons + 1,
                 !.offs = 0]
  /\ UNCHANGED highlightFrame

\* setHighlight(entity, false) on the probed entity, highlighted or not
HighlightOff ==
  /\ probe' = [probe EXCEPT
                 !.graphics = setHighlightOff(probe.kind, probe.graphics, probe.stash).graphics,
                 !.stash = setHighlightOff(probe.kind, probe.graphics, probe.stash).stash,
                 !.ons = 0,
                 !.offs = 1]
  /\ UNCHANGED highlightFrame

\* setHighlight applied on and off to an entity of any kind and style
NextHighlight == HighlightOn \/ HighlightOff

SpecHighlight == InitHighlight /\ [][NextHighlight]_vars

\* SelectionManager.getWorldPosition: <<>> for null, else the world coordinates
\* globe.pick gives for the pixel
pickGlobe(screenPos) == IF screenPos = OffGlobe THEN <<>> ELSE <<screenPos>>

\* one step of pointInPolygon's loop: the edge from a = polygon[i] to
\* b = polygon[j] is crossed by the ray from the point pt / k
intersect(pt, k, a, b) ==
  /\ (a[2] * k > pt[2]) # (b[2] * k > pt[2])
  /\ IF b[2] - a[2] > 0
     THEN (pt[1] - a[1] * k) * (b[2] - a[2]) < (b[1] - a[1]) * (pt[2] - a[2] * k)
     ELSE (pt[1] - a[1] * k) * (b[2] - a[2]) > (b[1] - a[1]) * (pt[2] - a[2] * k)

RECURSIVE pointInPolygonLoop(_, _, _, _, _, _)
pointInPolygonLoop(pt, k, polygon, i, j, inside) ==
  IF i > Len(polygon) THEN inside
  ELSE pointInPolygonLoop(pt, k, polygon, i + 1, i,
                          IF intersect(pt, k, polygon[i], polygon[j]) THEN ~inside ELSE inside)

\* pointInPolygon (even-odd rule) for the point pt / k, a fraction of whole pixels
pointInPolygon(pt, k, polygon) ==
  pointInPolygonLoop(pt, k, polygon, 1, Len(polygon), FALSE)

\* the canvas points of a list of vertices, those without one filtered out
canvasOf(verts) ==
  LET some == SelectSeq(verts, LAMBDA v : cartesianToCanvasCoordinates(v) # <<>>)
  IN [i \in DOMAIN some |-> cartesianToCanvasCoordinates(some[i])[1]]

\* Rectangle.fromRadians of the two drag positions
dragRectangle(positions) ==
  [west |-> Min(positions[1][1], positions[2][1]), south |-> Min(positions[1][2], positions[2][2]),
   east |-> Max(positions[1][1], positions[2][1]), north |-> Max(positions[1][2], positions[2][2])]

\* a containment test that leaves out the border of the rectangle
containsInterior(rect, q) ==
  q[1] > rect.west /\ q[1] < rect.east /\ q[2] > rect.south /\ q[2] < rect.north

\* Rectangle.contains
contains(rect, q) ==
  q[1] >= rect.west /\ q[1] <= rect.east /\ q[2] >= rect.south /\ q[2] <= rect.north

\* rectCornersCart of getEntitiesInRectangle
rectCorners(rect) ==
  <<<<rect.west, rect.south>>, <<rect.east, rect.south>>, <<rect.east, rect.north>>,
    <<rect.west, rect.north>>>>

\* twice the centre of the rectangle: the centre is pt / 2
rectCenter2(rect) == <<rect.west + rect.east, rect.south + rect.north>>

\* a polygon / rectangle branch that tests the region's centre only
shapeHitCenterOnly(record, center, k, regionPoints) ==
  /\ record.kind \in {"polygon", "rectangle"}
  /\ Len(canvasOf(IF record.kind = "polygon" THEN record.positions ELSE record.corners)) >= 3
  /\ pointInPolygon(center, k, canvasOf(IF record.kind = "polygon" THEN record.positions
                                        ELSE record.corners))

\* the polygon / rectangle branch of the region tests: the region's centre
\* (center / k) or one of its corner points lies inside the shape on screen
shapeHit(record, center, k, regionPoints) ==
  /\ record.kind \in {"polygon", "rectangle"}
  /\ Len(canvasOf(IF record.kind = "polygon" THEN record.positions ELSE record.corners)) >= 3
  /\ \/ pointInPolygon(center, k, canvasOf(IF record.kind = "polygon" THEN record.positions
                                           ELSE record.corners))
     \/ \E i \in DOMAIN regionPoints :
          pointInPolygon(regionPoints[i], 1,
                         canvasOf(IF record.kind = "polygon" THEN record.positions
                                  ELSE record.corners))

\* the circle branch of the region tests: the region's centre (center / k) or
\* one of its points is within the radius of the circle's centre
circleHit(record, center, k, regionPoints) ==
  /\ record.kind = "circle" /\ record.center # <<>> /\ record.radiusMeters # 0
  /\ \/ Dist2(<<record.center[1].p[1] * k, record.center[1].p[2] * k>>, center)
          <= record.radiusMeters * record.radiusMeters * k * k
     \/ \E i \in DOMAIN regionPoints :
          Dist2(record.center[1].p, regionPoints[i]) <= record.radiusMeters * record.radiusMeters

\* the test of one stored shape in getEntitiesInRectangle
insideRectangle(record, rect) ==
  \/ \E i \in DOMAIN RecVerts(record) : contains(rect, RecVerts(record)[i].p)
  \/ shapeHit(record, rectCenter2(rect), 2, rectCorners(rect))
  \/ circleHit(record, rectCenter2(rect), 2, rectCorners(rect))

\* the entities of a list of stored shapes
entitiesOf(items) == [i \in DOMAIN items |-> items[i].entity]

\* getEntitiesInRectangle
getEntitiesInRectangle(rect) ==
  entitiesOf(SelectSeq(storedGeometries, LAMBDA g : insideRectangle(g.record, rect)))

RECURSIVE sumOf(_, _)
\* the sum of coordinate c of the points
sumOf(points, c) ==
  IF points = <<>> THEN 0 ELSE points[1][c] + sumOf(Tail(points), c)

\* the centroid of the lasso on screen, times the number of its points
centroidN(screenPoly) == <<sumOf(screenPoly, 1), sumOf(screenPoly, 2)>>

\* the test of one stored shape in getEntitiesInPolygon
insidePolygon(record, screenPoly) ==
  \/ \E i \in DOMAIN RecVerts(record) :
       /\ cartesianToCanvasCoordinates(RecVerts(record)[i]) # <<>>
       /\ pointInPolygon(cartesianToCanvasCoordinates(RecVerts(record)[i])[1], 1, screenPoly)
  \/ shapeHit(record, centroidN(screenPoly), Len(screenPoly), screenPoly)
  \/ circleHit(record, centroidN(screenPoly), Len(screenPoly), screenPoly)

\* a lasso test that reports every stored shape
getEntitiesInPolygonAll(polygon) ==
  IF Len(polygon) < 3 THEN <<>> ELSE entitiesOf(storedGeometries)

\* getEntitiesInPolygon: the lasso vertices are world coordinates, their canvas
\* points the same pixels
getEntitiesInPolygon(polygon) ==
  IF Len(polygon) < 3 THEN <<>>
  ELSE entitiesOf(SelectSeq(storedGeometries, LAMBDA g : insidePolygon(g.record, polygon)))

\* the entities of a result list
Range(list) == {list[i] : i \in DOMAIN list}

\* the stores as a listener called at this point of a handler reads them, stored
\* being storedGeometries at that point
View(stored) ==
  [storedGeometries |-> stored, allGeometries |-> allGeometries,
   entityToRecord |-> entityToRecord, allVertices |-> allVertices,
   viewerEntities |-> viewerEntities]

\* getAndClearSelected: the selected entities leave storedGeometries and the
\* selection, then emitSelectionChanged dispatches 'selectionChanged' to its
\* listeners before the call returns
getAndClearSelected ==
  /\ storedGeometries' = SelectSeq(storedGeometries, LAMBDA g : g.entity \notin selectedEntities)
  /\ selectedEntities' = {}
  /\ highlighted' = highlighted \ selectedEntities
  /\ observed' = <<View(storedGeometries')>>

\* --------------------------------------------------------- DrawManager
\* teardown: handler destroyed, Escape listener removed, session fields reset
teardown ==
  /\ handler' = FALSE
  /\ cleanupFns' = 0
  /\ activeMode' = NoMode
  /\ activeEntity' = NoEntity
  /\ draftPositions' = <<>>
  /\ previewPoint' = NoEntity
  /\ opts' = InitialOptions

\* startDraw: a session in progress is torn down (its entities stay rendered),
\* then the preview point and the drawing entity are added and the handlers set up
startDraw(mode, options) ==
  LET preview == Fresh(UsedEntities)
      entity == Fresh(UsedEntities \cup {preview})
  IN /\ activeMode' = mode
     /\ draftPositions' = <<>>
     /\ opts' = mergeOptions(defaultOptions, options)
     /\ previewPoint' = preview
     /\ activeEntity' = entity
     /\ viewerEntities' = viewerEntities \cup {preview, entity}
     /\ handler' = TRUE
     /\ cleanupFns' = (IF activeMode # NoMode THEN 0 ELSE cleanupFns) + 1
     /\ promise' = "pending"

\* a finish that keeps the trailing vertex
FinalPositionsWhole(mode, positions) == positions

\* the final positions finishDrawing builds
FinalPositions(mode, positions) ==
  IF mode \in {"polyline", "polygon"} THEN SubSeq(positions, 1, Len(positions) - 1)
  ELSE positions

\* the minimum-count validation of finishDrawing
Finishes(mode, positions) == Len(positions) >= minPoints[mode]

\* a finish whose record is not registered with the selection manager
finishDrawingUnregistered(mode, positions) ==
  IF ~Finishes(mode, positions)
  THEN /\ draftPositions' = positions
       /\ UNCHANGED <<viewerEntities, handler, activeEntity, activeMode, cleanupFns, previewPoint,
                      opts, regVars, selVars, promise>>
  ELSE LET final == FinalPositions(mode, positions)
           rec == recordGeometry(mode, final, activeEntity, RegistryRefs \cup RefsOf(positions))
       IN /\ allVertices' = allVertices \o rec.pushed
          /\ allGeometries' = Append(allGeometries, rec.record)
          /\ viewerEntities' = viewerEntities \ {previewPoint}
          /\ entityToRecord' = MapSet(entityToRecord, activeEntity, rec.record)
          /\ teardown
          /\ enableSelect("pointer")
          /\ UNCHANGED <<storedGeometries, selectedEntities, camera, highlighted, probe>>
          /\ promise' = "resolved"

\* finishDrawing on the draft the calling handler left: ignored below the
\* minimum count; else the record is stored, the preview removed, the session
\* torn down, onDrawingComplete run (registerGeometry, enableSelect('pointer'))
\* and the promise resolved
finishDrawing(mode, positions) ==
  IF ~Finishes(mode, positions)
  THEN /\ draftPositions' = positions
       /\ UNCHANGED <<viewerEntities, handler, activeEntity, activeMode, cleanupFns, previewPoint,
                      opts, regVars, selVars, promise>>
  ELSE LET final == FinalPositions(mode, positions)
           rec == recordGeometry(mode, final, activeEntity, RegistryRefs \cup RefsOf(positions))
       IN /\ allVertices' = allVertices \o rec.pushed
          /\ allGeometries' = Append(allGeometries, rec.record)
          /\ viewerEntities' = viewerEntities \ {previewPoint}
          /\ entityToRecord' = MapSet(entityToRecord, activeEntity, rec.record)
          /\ teardown
          /\ storedGeometries' = Append(storedGeometries,
                                        [entity |-> activeEntity, record |-> rec.record])
          /\ enableSelect("pointer")
          /\ UNCHANGED <<selectedEntities, camera, highlighted, probe>>
          /\ promise' = "resolved"

\* a cancellation that leaves the promise pending
cancelDrawingUnsettled ==
  /\ viewerEntities' = viewerEntities \ {activeEntity, previewPoint}
  /\ teardown
  /\ UNCHANGED promise

\* cancelDrawing: the Escape handler of the session
cancelDrawing ==
  /\ viewerEntities' = viewerEntities \ {activeEntity, previewPoint}
  /\ teardown
  /\ promise' = "rejected"

\* DrawManager.cancel
cancel ==
  /\ viewerEntities' = viewerEntities \ {activeEntity}
  /\ teardown
  /\ UNCHANGED promise

\* the draft without its trailing preview vertex, which the handlers overwrite
kept(positions) == SubSeq(positions, 1, Max(0, Len(positions) - 1))

\* the Cartesian3 getWorldPosition builds for a pixel on the globe: a new object
worldGuess(screenPos, positions) ==
  V(Fresh(RegistryRefs \cup RefsOf(kept(positions))), getWorldPosition(screenPos)[1])

\* the draft with its trailing preview vertex set to pos
setPreview(positions, pos) ==
  IF Len(positions) = 0 THEN <<pos>> ELSE [positions EXCEPT ![Len(positions)] = pos]

\* the draft after handleMouseMove
handleMouseMove(screenPos, mode, positions, o) ==
  IF getWorldPosition(screenPos) = <<>> THEN positions
  ELSE setPreview(positions,
                  applySnapping(screenPos, worldGuess(screenPos, positions), mode, positions, o))

\* what a click does: [positions, finish, accepted, autoClose]
Clicked(positions, finish, accepted, autoClose) ==
  [positions |-> positions, finish |-> finish, accepted |-> accepted, autoClose |-> autoClose]

\* handleLeftClick once the click position is snapped; clone is Cartesian3.clone
\* of the snapped position
lockVertex(screenPos, mode, positions, o, snappedPos, clone) ==
  IF mode = "point" THEN Clicked(<<snappedPos>>, TRUE, TRUE, FALSE)
  ELSE IF Len(positions) <= 1 THEN Clicked(<<snappedPos, clone>>, FALSE, TRUE, FALSE)
  ELSE IF mode \in {"rectangle", "circle"}
    THEN Clicked([positions EXCEPT ![Len(positions)] = snappedPos], TRUE, TRUE, FALSE)
  ELSE IF mode = "polygon" /\ o.autoClosePolygon /\ Len(positions) >= 3
          /\ isNearFirstVertex(positions[1], screenPos, o)
    THEN Clicked([positions EXCEPT ![Len(positions)] = positions[1]], TRUE, TRUE, TRUE)
  ELSE Clicked(Append([positions EXCEPT ![Len(positions)] = snappedPos], clone),
               FALSE, TRUE, FALSE)

\* the snapped position of a click and its clone
snapAndLock(screenPos, mode, positions, o, snappedPos) ==
  lockVertex(screenPos, mode, positions, o, snappedPos,
             V(Fresh(RegistryRefs \cup RefsOf(kept(positions)) \cup {snappedPos.ref}), snappedPos.p))

\* what handleLeftClick does
handleLeftClick(screenPos, shiftHeld, mode, positions, o) ==
  IF shiftHeld \/ getWorldPosition(screenPos) = <<>> THEN Clicked(positions, FALSE, FALSE, FALSE)
  ELSE snapAndLock(screenPos, mode, positions, o,
                   applySnapping(screenPos, worldGuess(screenPos, positions), mode, positions, o))

\* the draft handleRightClick hands to finishDrawing
handleRightClick(screenPos, mode, positions) ==
  LET worldPos == worldGuess(screenPos, positions)
      clone == V(Fresh(RegistryRefs \cup RefsOf(kept(positions)) \cup {worldPos.ref}), worldPos.p)
  IN IF Len(positions) > 0 /\ getWorldPosition(screenPos) # <<>>
     THEN IF mode \in {"polyline", "polygon"}
          THEN Append(setPreview(positions, worldPos), clone)
          ELSE setPreview(positions, worldPos)
     ELSE positions

\* the draft handleDoubleClick hands to finishDrawing
handleDoubleClick(screenPos, mode, positions) ==
  LET worldPos == worldGuess(screenPos, positions)
      clone == V(Fresh(RegistryRefs \cup RefsOf(kept(positions)) \cup {worldPos.ref}), worldPos.p)
  IN IF Len(positions) > 0 /\ getWorldPosition(screenPos) # <<>>
     THEN IF mode \in {"polyline", "polygon"}
          THEN Append(setPreview(positions, worldPos), clone)
          ELSE setPreview(positions, worldPos)
     ELSE positions

\* ------------------------------------------------------- EntityManager
\* deleteSelected: the selection is taken and cleared, its entities leave the
\* viewer and the snap data, all within the call
deleteSelected ==
  IF selectedEntities = {}
  THEN UNCHANGED <<viewerEntities, regVars, selectedEntities, highlighted>> /\ observed' = <<>>
  ELSE /\ getAndClearSelected
       /\ viewerEntities' = viewerEntities \ selectedEntities
       /\ allGeometries' = removeFromSnapDataGeometries(allGeometries, entityToRecord, selectedEntities)
       /\ allVertices' = removeFromSnapDataVertices(allVertices, entityToRecord, selectedEntities)
       /\ entityToRecord' = removeFromSnapDataMap(entityToRecord, selectedEntities)

SessionEnds ==
  clicks' = 0 /\ finishReqs' = 0 /\ preSession' = EmptyRegistry /\ deletedInSession' = FALSE

\* ---------------------------------------------------------------- actions
\* EntityManager.drawPoint .. drawCircle
Draw(mode, options) ==
  /\ Cardinality(viewerEntities) + 2 <= MaxEntities
  /\ disableSelect(FALSE)
  /\ startDraw(mode, options)
  /\ UNCHANGED <<regVars, defaultOptions, camera, probe>>
  /\ clicks' = 0
  /\ finishReqs' = 0
  /\ preSession' = Registry
  /\ deletedInSession' = FALSE
  /\ last' = NoLast
  /\ observed' = <<>>

\* a draw call while fewer than MaxEnables keydown listeners are registered
DrawStart(mode, options) == deleteListeners < MaxEnables /\ Draw(mode, options)

\* MOUSE_MOVE on the draw handler
MouseMove(screenPos) ==
  /\ handler
  /\ draftPositions' = handleMouseMove(screenPos, activeMode, draftPositions, opts)
  /\ last' = NoLast
  /\ observed' = <<>>
  /\ UNCHANGED <<viewerEntities, handler, activeEntity, activeMode, cleanupFns, previewPoint, opts,
                 regVars, selVars, defaultOptions, promise, clicks, finishReqs, preSession,
                 deletedInSession>>

\* the LEFT_CLICK handler once handleLeftClick has built the draft: r is what
\* the click did, done whether it ends the session, n the clicks accepted so far
LeftClicked(r, done, n) ==
  /\ Len(r.positions) <= MaxDraft
  /\ IF r.finish
     THEN finishDrawing(activeMode, r.positions)
     ELSE /\ draftPositions' = r.positions
          /\ UNCHANGED <<viewerEntities, handler, activeEntity, activeMode, cleanupFns,
                         previewPoint, opts, regVars, selVars, promise>>
  /\ IF done
     THEN /\ SessionEnds
          /\ last' = Did(IF r.autoClose THEN "autoClose" ELSE "leftClick", activeMode, n,
                         finishReqs, {activeEntity})
     ELSE clicks' = n /\ last' = NoLast /\ UNCHANGED <<finishReqs, preSession, deletedInSession>>
  /\ observed' = <<>>
  /\ UNCHANGED defaultOptions

\* the LEFT_CLICK handler on what handleLeftClick did
LeftClickDoes(r) ==
  LeftClicked(r, r.finish /\ Finishes(activeMode, r.positions),
              IF r.accepted THEN clicks + 1 ELSE clicks)

\* LEFT_CLICK on the draw handler
LeftClick(screenPos, shiftHeld) ==
  /\ handler
  /\ LeftClickDoes(handleLeftClick(screenPos, shiftHeld, activeMode, draftPositions, opts))

\* a finish request: the draft the handler built goes to finishDrawing
FinishRequest(op, screenPos, positions) ==
  LET done == Finishes(activeMode, positions)
      n == IF activeMode \in {"polyline", "polygon"} /\ Len(draftPositions) > 0
              /\ getWorldPosition(screenPos) # <<>>
           THEN finishReqs + 1 ELSE finishReqs
  IN /\ handler
     /\ Len(positions) <= MaxDraft
     /\ finishDrawing(activeMode, positions)
     /\ IF done
        THEN SessionEnds /\ last' = Did(op, activeMode, clicks, n, {activeEntity})
        ELSE finishReqs' = n /\ last' = NoLast /\ UNCHANGED <<clicks, preSession, deletedInSession>>
     /\ observed' = <<>>
     /\ UNCHANGED defaultOptions

\* RIGHT_CLICK on the draw handler
RightClick(screenPos) ==
  FinishRequest("rightClick", screenPos, handleRightClick(screenPos, activeMode, draftPositions))

\* LEFT_DOUBLE_CLICK on the draw handler
DoubleClick(screenPos) ==
  FinishRequest("doubleClick", screenPos, handleDoubleClick(screenPos, activeMode, draftPositions))

\* keydown Escape while the session's listener is registered
Escape ==
  /\ cleanupFns > 0
  /\ cancelDrawing
  /\ SessionEnds
  /\ observed' = <<>>
  /\ last' = Did("escape", activeMode, clicks, finishReqs, {activeEntity})
  /\ UNCHANGED <<regVars, selVars, defaultOptions>>

\* EntityManager.cancelDraw
CancelDraw ==
  /\ cancel
  /\ SessionEnds
  /\ observed' = <<>>
  /\ last' = IF activeMode = NoMode THEN NoLast
              ELSE Did("cancelDraw", activeMode, clicks, finishReqs, {activeEntity})
  /\ UNCHANGED <<regVars, selVars, defaultOptions>>

\* EntityManager.setDrawOptions
SetDrawOptions(options) ==
  /\ defaultOptions' = mergeOptions(defaultOptions, options)
  /\ last' = NoLast
  /\ observed' = <<>>
  /\ UNCHANGED <<viewerEntities, drawVars, regVars, selVars, promise, clicks, finishReqs,
                 preSession, deletedInSession>>

\* EntityManager.enableSelect
Enable(mode) ==
  /\ enableSelect(mode)
  /\ last' = NoLast
  /\ observed' = <<>>
  /\ UNCHANGED <<viewerEntities, drawVars, regVars, selectedEntities, camera, highlighted, probe,
                 defaultOptions, promise, clicks, finishReqs, preSession, deletedInSession>>

\* a call of enableSelect that keeps the keydown listeners below the bound, also
\* after the draw session in progress, if any, finishes
EnableBelow(mode, bound) ==
  /\ (isSelecting /\ selectionMode = mode) \/ deleteListeners + (IF handler THEN 1 ELSE 0) < bound
  /\ Enable(mode)

EnableSelect(mode) == EnableBelow(mode, MaxEnables)

\* EntityManager.disableSelect
DisableSelect(clear) ==
  /\ disableSelect(clear)
  /\ last' = NoLast
  /\ observed' = <<>>
  /\ UNCHANGED <<viewerEntities, drawVars, regVars, camera, probe, defaultOptions, promise,
                 clicks, finishReqs, preSession, deletedInSession>>

\* EntityManager.clearSelection
ClearSelection ==
  /\ clearSelection
  /\ last' = NoLast
  /\ observed' = <<>>
  /\ UNCHANGED <<viewerEntities, drawVars, regVars, modeVars, camera, probe, defaultOptions,
                 promise, clicks, finishReqs, preSession, deletedInSession>>

\* LEFT_CLICK on the pointer-select handler: scene.pick gives an entity or nothing
PointerClick(entity) ==
  /\ selectHandler = "pointer"
  /\ selectEntity(entity)
  /\ last' = Did("pointerClick", NoMode, 0, 0, selectedEntities)
  /\ observed' = <<>>
  /\ UNCHANGED <<viewerEntities, drawVars, regVars, modeVars, camera, probe, defaultOptions,
                 promise, clicks, finishReqs, preSession, deletedInSession>>

\* what the handlers of a selection drag leave alone
dragFrame ==
  <<drawVars, regVars, probe, defaultOptions, promise, clicks, finishReqs, preSession,
    deletedInSession>>

\* the press of a drag on a world position: camera navigation off, the closure's
\* positions reset to the start, a dashed preview entity added
startDrag(positions) ==
  /\ isDrawing' = TRUE
  /\ camera' = CameraDisabled
  /\ dragPositions' = positions
  /\ previewEntity' = Fresh(UsedEntities)
  /\ viewerEntities' = viewerEntities \cup {Fresh(UsedEntities)}
  /\ UNCHANGED <<handlerVars, selectedEntities, highlighted>>

\* a press, move or release the handler ignores
ignoredDrag == UNCHANGED <<viewerEntities, selVars>>

\* a release that restores camera navigation only when the region is used
endDragRestoringIfEnough(enough, selected) ==
  /\ IF enough /\ previewEntity # NoEntity
     THEN /\ viewerEntities' = viewerEntities \ {previewEntity}
          /\ selectMultiple(Range(selected))
          /\ camera' = CameraEnabled
     ELSE UNCHANGED <<viewerEntities, selectedEntities, highlighted, camera>>
  /\ enableSelect("pointer")

\* a release that stays in the drag's selection mode, with a new closure
endDragKeepingMode(enough, selected) ==
  /\ camera' = CameraEnabled
  /\ IF enough /\ previewEntity # NoEntity
     THEN /\ viewerEntities' = viewerEntities \ {previewEntity}
          /\ selectMultiple(Range(selected))
     ELSE UNCHANGED <<viewerEntities, selectedEntities, highlighted>>
  /\ newClosure
  /\ UNCHANGED handlerVars

\* the release of a drag: camera navigation on, the preview removed and the
\* entities of the region selected when enough positions were captured, then
\* enableSelect('pointer')
endDrag(enough, selected) ==
  /\ camera' = CameraEnabled
  /\ IF enough /\ previewEntity # NoEntity
     THEN /\ viewerEntities' = viewerEntities \ {previewEntity}
          /\ selectMultiple(Range(selected))
     ELSE UNCHANGED <<viewerEntities, selectedEntities, highlighted>>
  /\ enableSelect("pointer")

\* LEFT_DOWN on the rectangle-select handler
RectangleDown(screenPos) ==
  /\ selectHandler = "rectangle"
  /\ Cardinality(viewerEntities) < MaxEntities
  /\ IF pickGlobe(screenPos) = <<>> THEN ignoredDrag
     ELSE startDrag(<<pickGlobe(screenPos)[1], pickGlobe(screenPos)[1]>>)
  /\ last' = NoLast
  /\ observed' = <<>>
  /\ UNCHANGED dragFrame

\* MOUSE_MOVE on the rectangle-select handler
RectangleMove(screenPos) ==
  /\ selectHandler = "rectangle"
  /\ IF isDrawing /\ pickGlobe(screenPos) # <<>> /\ Len(dragPositions) >= 2
     THEN /\ dragPositions' = [dragPositions EXCEPT ![2] = pickGlobe(screenPos)[1]]
          /\ UNCHANGED <<viewerEntities, handlerVars, selectedEntities, camera, highlighted,
                         isDrawing, previewEntity>>
     ELSE ignoredDrag
  /\ last' = NoLast
  /\ observed' = <<>>
  /\ UNCHANGED dragFrame

\* LEFT_UP on the rectangle-select handler
RectangleUp ==
  /\ selectHandler = "rectangle"
  /\ isDrawing => deleteListeners < MaxSelectEnables
  /\ IF ~isDrawing THEN ignoredDrag /\ last' = NoLast
     ELSE /\ endDrag(Len(dragPositions) >= 2,
                     IF Len(dragPositions) >= 2
                     THEN getEntitiesInRectangle(dragRectangle(dragPositions)) ELSE <<>>)
          /\ last' = Did("rectangleUp", NoMode, Len(dragPositions), 0, {previewEntity})
  /\ observed' = <<>>
  /\ UNCHANGED dragFrame

\* LEFT_DOWN on the lasso-select handler
LassoDown(screenPos) ==
  /\ selectHandler = "lasso"
  /\ Cardinality(viewerEntities) < MaxEntities
  /\ IF pickGlobe(screenPos) = <<>> THEN ignoredDrag
     ELSE startDrag(<<pickGlobe(screenPos)[1]>>)
  /\ last' = NoLast
  /\ observed' = <<>>
  /\ UNCHANGED dragFrame

\* a move that also appends a position at exactly the threshold distance
lassoMovedAtThreshold(positions, pos) ==
  IF Len(positions) > 0
  THEN IF Dist2(positions[Len(positions)], pos) >= LassoThreshold * LassoThreshold
       THEN Append(positions, pos) ELSE positions
  ELSE <<pos>>

\* the lasso after a move to the world position pos
lassoMoved(positions, pos) ==
  IF Len(positions) > 0
  THEN IF Dist2(positions[Len(positions)], pos) > LassoThreshold * LassoThreshold
       THEN Append(positions, pos) ELSE positions
  ELSE <<pos>>

\* MOUSE_MOVE on the lasso-select handler
LassoMove(screenPos) ==
  /\ selectHandler = "lasso"
  /\ IF isDrawing /\ pickGlobe(screenPos) # <<>>
     THEN /\ dragPositions' = lassoMoved(dragPositions, pickGlobe(screenPos)[1])
          /\ Len(dragPositions') <= MaxLasso
          /\ UNCHANGED <<viewerEntities, handlerVars, selectedEntities, camera, highlighted,
                         isDrawing, previewEntity>>
     ELSE ignoredDrag
  /\ last' = NoLast
  /\ observed' = <<>>
  /\ UNCHANGED dragFrame

\* LEFT_UP on the lasso-select handler
LassoUp ==
  /\ selectHandler = "lasso"
  /\ isDrawing => deleteListeners < MaxSelectEnables
  /\ IF ~isDrawing THEN ignoredDrag /\ last' = NoLast
     ELSE /\ endDrag(Len(dragPositions) >= 3, getEntitiesInPolygon(dragPositions))
          /\ last' = [Did("lassoUp", NoMode, Len(dragPositions), 0, {previewEntity})
                         EXCEPT !.region = dragPositions]
  /\ observed' = <<>>
  /\ UNCHANGED dragFrame

Deletion(op) ==
  /\ deleteSelected
  /\ last' = IF selectedEntities = {} THEN NoLast ELSE Did(op, NoMode, 0, 0, selectedEntities)
  /\ deletedInSession' = (deletedInSession \/ (handler /\ selectedEntities # {}))
  /\ UNCHANGED <<drawVars, modeVars, camera, probe, defaultOptions, promise, clicks, finishReqs,
                 preSession>>

\* EntityManager.deleteSelected called by the application
DeleteSelected == Deletion("deleteSelected")

\* keydown Delete / Backspace: every registered listener raises onDeleteRequested
DeleteKey == deleteListeners > 0 /\ Deletion("deleteKey")

\* the finished shapes still rendered: what the modelled pointer clicks land on
Pickable == {storedGeometries[i].entity : i \in DOMAIN storedGeometries} \cap viewerEntities

\* drawing, selection and deletion together, every draw call with default options
Next ==
  \/ \E mode \in Modes : DrawStart(mode, NoOptions)
  \/ \E s \in ScreenInputs : MouseMove(s)
  \/ \E s \in ScreenInputs, shiftHeld \in BOOLEAN : LeftClick(s, shiftHeld)
  \/ \E s \in ScreenInputs : RightClick(s)
  \/ \E s \in ScreenInputs : DoubleClick(s)
  \/ Escape
  \/ CancelDraw
  \/ \E mode \in SelectionModes : EnableSelect(mode)
  \/ \E c \in BOOLEAN : DisableSelect(c)
  \/ ClearSelection
  \/ \E e \in Pickable \cup {NoEntity} : PointerClick(e)
  \/ DeleteSelected
  \/ DeleteKey

Spec == Init /\ [][Next]_vars

\* drawing on an empty map, with the options a call or setDrawOptions can give
NextDraw ==
  \/ \E mode \in Modes, options \in CallOptions : allGeometries = <<>> /\ DrawStart(mode, options)
  \/ \E s \in DrawInputs : MouseMove(s)
  \/ \E s \in DrawInputs, shiftHeld \in BOOLEAN : LeftClick(s, shiftHeld)
  \/ \E s \in DrawInputs : RightClick(s)
  \/ \E s \in DrawInputs : DoubleClick(s)
  \/ Escape
  \/ CancelDraw
  \/ \E o \in OptionInputs : SetDrawOptions(o)

SpecDraw == Init /\ [][NextDraw]_vars

\* the draw modes of the shapes that are drawn and then selected
SelectDrawModes == {"point", "rectangle"}

\* shapes drawn with default options, then selected by click, rectangle or lasso
NextSelect ==
  \/ \E mode \in SelectDrawModes : deleteListeners < MaxSelectEnables /\ Draw(mode, NoOptions)
  \/ \E s \in ScreenPts : LeftClick(s, FALSE)
  \/ \E mode \in SelectionModes : EnableBelow(mode, MaxSelectEnables)
  \/ \E c \in BOOLEAN : DisableSelect(c)
  \/ \E e \in Pickable \cup {NoEntity} : PointerClick(e)
  \/ \E s \in SelectInputs : RectangleDown(s)
  \/ \E s \in SelectInputs : RectangleMove(s)
  \/ RectangleUp
  \/ \E s \in SelectInputs : LassoDown(s)
  \/ \E s \in SelectInputs : LassoMove(s)
  \/ LassoUp

SpecSelect == Init /\ [][NextSelect]_vars

\* points drawn, selected by click, rectangle or lasso, cleared and deleted
NextOperate ==
  \/ deleteListeners < MaxSelectEnables /\ Draw("point", NoOptions)
  \/ \E s \in ScreenPts : LeftClick(s, FALSE)
  \/ \E mode \in SelectionModes : EnableBelow(mode, MaxSelectEnables)
  \/ \E c \in BOOLEAN : DisableSelect(c)
  \/ \E e \in Pickable \cup {NoEntity} : PointerClick(e)
  \/ \E s \in ScreenPts : RectangleDown(s)
  \/ \E s \in ScreenPts : RectangleMove(s)
  \/ RectangleUp
  \/ \E s \in ScreenPts : LassoDown(s)
  \/ \E s \in ScreenPts : LassoMove(s)
  \/ LassoUp
  \/ ClearSelection
  \/ DeleteSelected
  \/ DeleteKey

SpecOperate == Init /\ [][NextOperate]_vars

\* the draw modes and pixels of the sessions that snap to finished shapes
SnapDrawModes == {"polyline", "rectangle", "circle"}
SnapInputs == DrawInputs \ {OffGlobe}
\* the vertices a polyline of these sessions locks by clicks
MaxSnapLocked == 1

\* shapes drawn with snapping on or off, then sessions that snap to them
NextSnap ==
  \/ \E mode \in SnapDrawModes, options \in {NoOptions, [enabled |-> FALSE]} :
       deleteListeners < MaxSelectEnables /\ Draw(mode, options)
  \/ \E s \in SnapInputs : MouseMove(s)
  \/ \E s \in SnapInputs :
       (activeMode = "polyline" => clicks < MaxSnapLocked) /\ LeftClick(s, FALSE)
  \/ \E s \in ScreenPts : RightClick(s)

SpecSnap == Init /\ [][NextSnap]_vars

\* the draw modes and pixels of the shapes a lasso is dragged over, and the
\* pixels of the lasso
LassoDrawModes == {"rectangle", "polygon"}
ShapeInputs == {<<0, 0>>, <<30, 25>>, <<60, 0>>}
LassoInputs == {<<5, 5>>, <<20, 5>>, <<5, 20>>, <<60, 5>>, <<60, 40>>}
\* the shapes drawn before the lasso and the vertices each locks by clicks
MaxLassoShapes == 1
MaxLassoLocked == 2

\* rectangles and polygons drawn with default options, then lasso selection
NextLasso ==
  \/ \E mode \in LassoDrawModes : Len(allGeometries) < MaxLassoShapes /\ Draw(mode, NoOptions)
  \/ \E s \in ShapeInputs : clicks < MaxLassoLocked /\ LeftClick(s, FALSE)
  \/ \E s \in ShapeInputs : RightClick(s)
  \/ EnableBelow("lasso", MaxSelectEnables)
  \/ \E s \in LassoInputs : LassoDown(s)
  \/ \E s \in LassoInputs : LassoMove(s)
  \/ LassoUp

SpecLasso == Init /\ [][NextLasso]_vars

\* the pixels of a lasso drag: <<6, 8>> is at exactly the threshold distance of
\* <<0, 0>>, <<5, 5>> within it, <<0, 11>> and <<20, 0>> beyond it
ThresholdInputs == {<<0, 0>>, <<6, 8>>, <<5, 5>>, <<0, 11>>, <<20, 0>>}

\* lasso drags on a map without shapes
NextThreshold ==
  \/ \E mode \in {"pointer", "lasso"} : EnableBelow(mode, MaxSelectEnables)
  \/ \E c \in BOOLEAN : DisableSelect(c)
  \/ \E s \in ThresholdInputs : LassoDown(s)
  \/ \E s \in ThresholdInputs : LassoMove(s)
  \/ LassoUp

SpecThreshold == Init /\ [][NextThreshold]_vars

\* the draw modes of the shapes hit-tested by their vertices, the pixels of the
\* regions dragged over them and the number of shapes drawn
RegionDrawModes == {"point", "polyline"}
RegionInputs == {<<5, 5>>, <<20, 5>>, <<5, 20>>, <<60, 40>>}
MaxRegionShapes == 2

\* points and polylines drawn with default options, then rectangle and lasso
\* selection
NextRegion ==
  \/ \E mode \in RegionDrawModes : Len(allGeometries) < MaxRegionShapes /\ Draw(mode, NoOptions)
  \/ \E s \in ShapeInputs : clicks < MaxSnapLocked /\ LeftClick(s, FALSE)
  \/ \E s \in ShapeInputs : RightClick(s)
  \/ \E mode \in {"rectangle", "lasso"} : EnableBelow(mode, MaxSelectEnables)
  \/ \E s \in RegionInputs : RectangleDown(s)
  \/ \E s \in RegionInputs : RectangleMove(s)
  \/ RectangleUp
  \/ \E s \in RegionInputs : LassoDown(s)
  \/ \E s \in RegionInputs : LassoMove(s)
  \/ LassoUp

SpecRegion == Init /\ [][NextRegion]_vars

\* the draw modes of the sessions during which the pointer also selects
PickDrawModes == {"point"}

\* drawing and pointer selection, a click landing on any rendered entity
\* (scene.pick), empty space included
NextPick ==
  \/ \E mode \in PickDrawModes : DrawStart(mode, NoOptions)
  \/ \E s \in ScreenPts : MouseMove(s)
  \/ \E s \in ScreenPts : LeftClick(s, FALSE)
  \/ \E s \in ScreenPts : RightClick(s)
  \/ Escape
  \/ CancelDraw
  \/ EnableSelect("pointer")
  \/ \E c \in BOOLEAN : DisableSelect(c)
  \/ \E e \in viewerEntities \cup {NoEntity} : PointerClick(e)
  \/ DeleteSelected
  \/ DeleteKey

SpecPick == Init /\ [][NextPick]_vars

\* ------------------------------------------------------------------ claims
\* steps of the input events and API calls the claims speak of
FinishRequested == \E s \in DrawInputs : RightClick(s) \/ DoubleClick(s)
DrawStarted == \E mode \in Modes, options \in CallOptions : DrawStart(mode, options)
Finishing == {"leftClick", "autoClose", "rightClick", "doubleClick"}
Deleting == {"deleteSelected", "deleteKey"}
\* the record the session that just finished stored
StoredRecord == allGeometries[Len(allGeometries)]
AutoClosed == IF last.op = "autoClose" THEN 1 ELSE 0

\* C1: a finish request (right-click or double-click) that arrives while the
\* draft holds fewer vertices than the mode's minimum is a no-op: the draft
\* buffer, the registry and the vertex index are what they were and the session
\* stays capturing.
C1_FinishBelowMinimumIsNoOp ==
  [][(handler /\ Len(draftPositions) < minPoints[activeMode] /\ FinishRequested)
       => /\ draftPositions' = draftPositions
          /\ allGeometries' = allGeometries
          /\ allVertices' = allVertices
          /\ handler' /\ activeMode' = activeMode /\ promise' = "pending"]_vars

\* C2: every polyline record of the registry stores at least 2 vertices and
\* every polygon record at least 3.
C2_RecordsMeetMinimum ==
  \A i \in DOMAIN allGeometries :
    /\ allGeometries[i].kind = "polyline" => Len(allGeometries[i].positions) >= 2
    /\ allGeometries[i].kind = "polygon" => Len(allGeometries[i].positions) >= 3

\* C3: a draw started while a session is capturing cancels that session: its
\* pending entity and its preview marker leave the rendered entities, only the
\* new session's bindings remain, and the registry and the vertex index are
\* not changed.
C3_NewDrawCancelsPrevious ==
  [][(activeMode # NoMode /\ DrawStarted)
       => /\ activeEntity \notin viewerEntities'
          /\ previewPoint \notin viewerEntities'
          /\ cleanupFns' = 1
          /\ Registry' = Registry]_vars

\* C4 as stated: when Escape arrives during capture the promise rejects and the
\* registry and the vertex index are identical to their pre-session state.
C4_EscapeRestoresPreSession ==
  [][Escape => promise' = "rejected" /\ Registry' = preSession]_vars

\* C4 amended: when Escape arrives during capture the promise rejects and the
\* Escape changes neither the registry nor the vertex index; they are identical
\* to their pre-session state unless a deletion was committed during the session.
C4_EscapeLeavesRegistry ==
  [][Escape => /\ promise' = "rejected"
               /\ Registry' = Registry
               /\ (~deletedInSession => Registry' = preSession)]_vars

\* C4 witness: Escape after a locked vertex, with a shape in the registry
C4_Witness ==
  last.op = "escape" /\ last.clicks >= 1 /\ promise = "rejected" /\ allGeometries # <<>>

\* C5: every cancellation of a draw in progress, by Escape or by cancelDraw,
\* removes the in-progress entity and the preview marker, tears down every
\* binding and rejects the promise.
C5_CancellationCleansUpAndRejects ==
  [][(activeMode # NoMode /\ (Escape \/ CancelDraw))
       => /\ activeEntity \notin viewerEntities'
          /\ previewPoint \notin viewerEntities'
          /\ ~handler' /\ cleanupFns' = 0
          /\ promise' = "rejected"]_vars

\* C6 as stated: the stored vertex count of a finished polygon is the number of
\* primary-clicks accepted in the session, minus one if an auto-close click
\* finished it.
C6_StoredCountIsClicks ==
  (last.op \in Finishing /\ last.mode = "polygon")
    => Len(StoredRecord.positions) = last.clicks - AutoClosed

\* C6 amended: the stored vertex count of a finished polygon is the number of
\* primary-clicks accepted in the session plus the number of its finish requests
\* that carried a world position while the draft was not empty (each adds the
\* cursor position as a vertex), minus one if an auto-close click finished it.
C6_StoredCountIsClicksAndFinishRequests ==
  (last.op \in Finishing /\ last.mode = "polygon")
    => Len(StoredRecord.positions) = last.clicks + last.finishReqs - AutoClosed

\* C6 witness: a polygon of two clicks finished by a right-click stores three vertices
C6_Witness ==
  /\ last.op = "rightClick" /\ last.mode = "polygon"
  /\ last.clicks = 2 /\ last.finishReqs = 1
  /\ Len(StoredRecord.positions) = 3

\* C7: a primary-click auto-closes a polygon only if at least 3 vertices are
\* locked and the click is within pixel tolerance of the first of them; the
\* session then finishes and stores exactly the locked vertices.
C7_AutoCloseNeedsThreeLocked ==
  [][\A s \in DrawInputs :
       (LeftClick(s, FALSE) /\ last'.op = "autoClose")
         => LET locked == SubSeq(draftPositions, 1, Len(draftPositions) - 1)
            IN /\ Len(locked) >= 3
               /\ isNearFirstVertex(locked[1], s, opts)
               /\ promise' = "resolved"
               /\ allGeometries'[Len(allGeometries')].positions = locked]_vars

\* C8: the vertex index holds exactly the vertices (positions, corners, centers)
\* of the records in the registry: none of a removed record, none of a
\* surviving record missing.
C8_IndexMatchesRegistry ==
  RefsOf(allVertices) = UNION {RefsOf(RecVerts(allGeometries[i])) : i \in DOMAIN allGeometries}

\* C9: a deletion removes, within the call, each selected shape's record from
\* storedGeometries, allGeometries and entityToRecord, its entity from the
\* rendered entities and its vertices from the index, and no event callback
\* sees these stores out of step with one another.
C9_DeletionIsAtomic ==
  last.op \in Deleting
    => /\ last.entities \cap viewerEntities = {}
       /\ \A i \in DOMAIN storedGeometries : storedGeometries[i].entity \notin last.entities
       /\ \A m \in entityToRecord : m.entity \notin last.entities
       /\ \A i \in DOMAIN observed :
            {observed[i].storedGeometries[j].record.rid : j \in DOMAIN observed[i].storedGeometries}
              = {observed[i].allGeometries[j].rid : j \in DOMAIN observed[i].allGeometries}

\* C10: the draw session's input bindings and a selection mode's input bindings
\* are never installed together.
C10_DrawAndSelectExclusive == ~(handler /\ selectHandler # "none")

\* C11: selection is re-enabled once a draw resolves or rejects: after a draw
\* finishes selection is in pointer mode with the new shape registered, and
\* after a draw is rejected by Escape selection is enabled again.
C11_SelectionReenabledAfterDraw ==
  /\ last.op \in Finishing
       => /\ isSelecting /\ selectionMode = "pointer" /\ selectHandler = "pointer"
          /\ \E i \in DOMAIN storedGeometries : storedGeometries[i].entity \in last.entities
  /\ last.op = "escape" => isSelecting /\ selectHandler # "none"

\* C12: at most one selection input handler exists, it belongs to the most
\* recently enabled mode while selection is enabled, and none exists while
\* selection is disabled.
C12_SelectionModesNeverStack ==
  /\ liveSelectHandlers <= 1
  /\ isSelecting => liveSelectHandlers = 1 /\ selectHandler = selectionMode
  /\ ~isSelecting => liveSelectHandlers = 0 /\ selectHandler = "none"

\* C12 witness: a second mode enabled over another one
C12_Witness ==
  isSelecting /\ selectHandler = "lasso" /\ deleteListeners = 2 /\ liveSelectHandlers = 1

\* C13: at most one Escape listener and at most one Delete listener are
\* registered, and no Delete listener while selection is disabled.
C13_KeyboardListenersScoped ==
  /\ cleanupFns <= 1
  /\ deleteListeners <= 1
  /\ ~isSelecting => deleteListeners = 0

\* steps of the release handlers of the two drag modes
Released == RectangleUp \/ LassoUp

\* C14: in pointer mode a click on an entity of the selection set toggles it
\* out: after the click it is neither selected nor highlighted.
C14_ClickOnSelectedTogglesOut ==
  [][\A e \in Pickable :
       (PointerClick(e) /\ e \in selectedEntities)
         => e \notin selectedEntities' /\ e \notin highlighted']_vars

\* C15: a pointer click on empty space leaves the selection empty and every
\* previously selected entity without highlight, and after any pointer click
\* the selection holds at most one entity.
C15_PointerClickIsSingleSelect ==
  [][\A e \in Pickable \cup {NoEntity} :
       PointerClick(e)
         => /\ Cardinality(selectedEntities') <= 1
            /\ e = NoEntity => selectedEntities' = {} /\ selectedEntities \cap highlighted' = {}]_vars

\* C15 witness: a click on empty space after a drag that selected two shapes
C15_Witness ==
  /\ last.op = "pointerClick" /\ Cardinality(last.entities) = 2
  /\ selectedEntities = {} /\ highlighted = {}

\* C16: camera rotate, translate and zoom are off from the press that starts a
\* rectangle or lasso drag until the release, and the release that ends the
\* drag turns all three on, whatever the drag captured or selected.
C16_CameraSuspendedDuringDrag ==
  [][/\ isDrawing' => camera' = CameraDisabled
     /\ (isDrawing /\ Released) => camera' = CameraEnabled /\ ~isDrawing']_vars

\* C16 witness: a lasso released with fewer than 3 vertices, nothing selected
C16_Witness ==
  /\ last.op = "lassoUp" /\ last.clicks < 3
  /\ selectedEntities = {} /\ camera = CameraEnabled /\ ~isDrawing

\* C17: the release that completes a rectangle or lasso drag leaves selection in
\* pointer mode, the pointer handler the only one installed and onModeChanged
\* last reporting pointer; a release with no accepted press before it changes
\* neither the mode, the handler nor the report.
C17_DragRevertsToPointer ==
  [][/\ (isDrawing /\ Released)
          => /\ isSelecting' /\ selectionMode' = "pointer" /\ selectHandler' = "pointer"
             /\ liveSelectHandlers' = 1 /\ modeChanged' = "pointer"
     /\ (~isDrawing /\ Released) => UNCHANGED <<handlerVars, closureVars>>]_vars

\* C17 witness: a rectangle drag just released, pointer mode reported
C17_Witness ==
  /\ last.op = "rectangleUp"
  /\ selectionMode = "pointer" /\ selectHandler = "pointer" /\ modeChanged = "pointer"

\* C18: highlight on, once or more, followed by highlight off restores every
\* style property the highlight overrides to its value before the highlight,
\* for every kind of graphics and every initial style, unset values included.
C18_HighlightIsReversible ==
  probe.offs = 1 => probe.graphics = probe.original

\* C19: while a session is capturing the draft buffer holds exactly one more
\* element than the number of locked vertices, from the start of the session.
C19_DraftIsLockedPlusOne ==
  handler => Len(draftPositions) = clicks + 1

\* steps of pointer events that carry a position with no world position
ProjectionMiss ==
  \/ MouseMove(OffGlobe)
  \/ \E shiftHeld \in BOOLEAN : LeftClick(OffGlobe, shiftHeld)
  \/ RightClick(OffGlobe)
  \/ DoubleClick(OffGlobe)
  \/ RectangleDown(OffGlobe)
  \/ RectangleMove(OffGlobe)
  \/ LassoDown(OffGlobe)
  \/ LassoMove(OffGlobe)

\* C20: a pointer event whose position resolves to no world position changes
\* neither the draft buffer, the session, the registry, the vertex index, the
\* selection nor a drag in progress.
C20_ProjectionMissIsNoOp ==
  [][ProjectionMiss
       => UNCHANGED <<draftPositions, handler, activeMode, activeEntity, previewPoint, promise,
                      viewerEntities, regVars, selectedEntities, closureVars, camera>>]_vars

\* the edges a pointer can snap to: those between the draft's anchors and those
\* of the finished polylines, polygons and rectangles
EdgesOf(verts, closed) ==
  {<<verts[i], verts[i + 1]>> : i \in 1..(Len(verts) - 1)}
    \cup (IF closed /\ Len(verts) >= 2 THEN {<<verts[Len(verts)], verts[1]>>} ELSE {})
GeometryEdges(geom) ==
  IF geom.kind \in {"polyline", "polygon", "rectangle"}
  THEN EdgesOf(geom.positions \o geom.corners, geom.kind # "polyline")
  ELSE {}
SnapEdges(anchorVerts) ==
  EdgesOf(anchorVerts, FALSE) \cup UNION {GeometryEdges(allGeometries[i]) : i \in DOMAIN allGeometries}
\* the boundary points within tolerance of the pixel s: the projections of s on
\* the edges and the perimeter points of the finished circles
BoundaryPoints(s, guess, anchorVerts, o) ==
  ({bestPos(checkEdge(<<>>, e[1], e[2], s, o.pixelTolerance, guess.ref)) : e \in SnapEdges(anchorVerts)}
     \cup {bestPos(checkCircle(<<>>, allGeometries[i], s, guess, o.pixelTolerance, guess.ref)) :
             i \in {j \in DOMAIN allGeometries : allGeometries[j].kind = "circle"}})
    \ {<<>>}
\* the vertices within tolerance of the pixel s
VerticesNear(s, anchorVerts, o) ==
  {v \in Range(anchorVerts \o allVertices) : Dist2(v.p, s) <= o.pixelTolerance * o.pixelTolerance}
SnapsInOrder(s, guess, result, boundary, vertices, o) ==
  IF ~o.enabled THEN result = guess
  ELSE IF boundary # {} THEN <<result>> \in boundary
  ELSE IF vertices # {} THEN /\ result \in vertices
                             /\ \A v \in vertices : Dist2(result.p, s) <= Dist2(v.p, s)
  ELSE result = guess
SnapResult(s, guess) ==
  SnapsInOrder(s, guess, applySnapping(s, guess, activeMode, draftPositions, opts),
               BoundaryPoints(s, guess, anchors(activeMode, draftPositions), opts),
               VerticesNear(s, anchors(activeMode, draftPositions), opts), opts)

\* C21: in every draw session and for every pointer position, snapping with
\* snapping disabled returns the unsnapped guess; else, if an edge or circle
\* perimeter lies within tolerance, a boundary point; else, if a draft anchor or
\* an indexed vertex lies within tolerance, the closest such vertex; else the
\* unsnapped guess.
C21_SnappingFollowsPriority ==
  handler => \A s \in SnapInputs : SnapResult(s, worldGuess(s, draftPositions))

\* a pointer-move has put the trailing vertex on a boundary although a vertex
\* within tolerance is closer to the pointer
C21_Witness ==
  /\ handler /\ opts.enabled /\ Len(draftPositions) > 0
  /\ \E s \in SnapInputs :
       /\ <<draftPositions[Len(draftPositions)]>>
            \in BoundaryPoints(s, worldGuess(s, draftPositions),
                               anchors(activeMode, draftPositions), opts)
       /\ \E v \in VerticesNear(s, anchors(activeMode, draftPositions), opts) :
            Dist2(v.p, s) < Dist2(draftPositions[Len(draftPositions)].p, s)

\* C22: a session that finishes stores a record of its mode's kind, and does so
\* on its mode's trigger: point on the first primary-click with 1 vertex,
\* rectangle and circle on the second primary-click, polyline on a secondary-
\* or double-click (never on a primary-click), polygon on a secondary-click, a
\* double-click or an auto-closing primary-click.
C22_ModesFinishOnTheirTrigger ==
  last.op \in Finishing =>
    /\ StoredRecord.kind = last.mode
    /\ CASE last.mode = "point" ->
              last.op = "leftClick" /\ last.clicks = 1 /\ Len(StoredRecord.positions) = 1
         [] last.mode \in {"rectangle", "circle"} -> last.op = "leftClick" /\ last.clicks = 2
         [] last.mode = "polyline" -> last.op \in {"rightClick", "doubleClick"}
         [] last.mode = "polygon" -> last.op \in {"rightClick", "doubleClick", "autoClose"}

\* the positions of a vertex list
PointsOf(verts) == [i \in DOMAIN verts |-> verts[i].p]
\* the draft a finishing event of the pixel s hands to finishDrawing
ClickDraft(s) == handleLeftClick(s, FALSE, activeMode, draftPositions, opts).positions
RightClickDraft(s) == handleRightClick(s, activeMode, draftPositions)
DoubleClickDraft(s) == handleDoubleClick(s, activeMode, draftPositions)
\* (west,south), (west,north), (east,north), (east,south) of the opposite
\* corners a and b
BoxOf(a, b) ==
  LET west == IF a[1] <= b[1] THEN a[1] ELSE b[1]
      east == IF a[1] <= b[1] THEN b[1] ELSE a[1]
      south == IF a[2] <= b[2] THEN a[2] ELSE b[2]
      north == IF a[2] <= b[2] THEN b[2] ELSE a[2]
  IN <<<<west, south>>, <<west, north>>, <<east, north>>, <<east, south>>>>
\* the record stored for the draft is the rectangle of its first and last point
StoresBox(draft) ==
  /\ allGeometries'[Len(allGeometries')].kind = "rectangle"
  /\ PointsOf(allGeometries'[Len(allGeometries')].corners) = BoxOf(draft[1].p, draft[Len(draft)].p)
  /\ allGeometries'[Len(allGeometries')].positions = <<>>
RectangleFinishes == activeMode = "rectangle" /\ last'.op \in Finishing

\* C23: every event that finishes a rectangle session stores a record with
\* exactly the 4 corners (west,south), (west,north), (east,north), (east,south)
\* of the two captured points, in that order, whichever of the two was captured
\* first; the captured points (0,0) and (5,5) give (0,0), (0,5), (5,5), (5,0) in
\* either order.
C23_RectangleCornersAreOrdered ==
  [][/\ RectangleFinishes =>
          \A s \in DrawInputs :
            /\ LeftClick(s, FALSE) => StoresBox(ClickDraft(s))
            /\ RightClick(s) => StoresBox(RightClickDraft(s))
            /\ DoubleClick(s) => StoresBox(DoubleClickDraft(s))
     /\ \A d \in {<<V(1, <<0, 0>>), V(2, <<5, 5>>)>>, <<V(1, <<5, 5>>), V(2, <<0, 0>>)>>} :
          PointsOf(recordGeometry("rectangle", d, 1, {1, 2}).record.corners)
            = <<<<0, 0>>, <<0, 5>>, <<5, 5>>, <<5, 0>>>>]_vars

\* a rectangle session has finished with four distinct corners
C23_Witness ==
  /\ last.op \in Finishing /\ last.mode = "rectangle"
  /\ PointsOf(StoredRecord.corners) = <<<<0, 0>>, <<0, 25>>, <<30, 25>>, <<30, 0>>>>

\* the record stored for the draft is the circle around its first point through
\* its last point, with a radius of at least 1
StoresCircle(draft) ==
  /\ allGeometries'[Len(allGeometries')].kind = "circle"
  /\ allGeometries'[Len(allGeometries')].center = <<draft[1]>>
  /\ allGeometries'[Len(allGeometries')].radiusMeters
       = (IF ISqrt(Dist2(draft[1].p, draft[Len(draft)].p)) >= 1
          THEN ISqrt(Dist2(draft[1].p, draft[Len(draft)].p)) ELSE 1)
  /\ allGeometries'[Len(allGeometries')].radiusMeters >= 1
CircleFinishes == activeMode = "circle" /\ last'.op \in Finishing

\* C24: every event that finishes a circle session stores a record whose centre
\* is the first captured point and whose radius is the surface distance between
\* the two captured points, or 1 when that distance is below 1 (both captured at
\* the same position); no stored circle has a radius below 1.
C24_CircleRadiusAtLeastOne ==
  [][/\ CircleFinishes =>
          \A s \in DrawInputs :
            /\ LeftClick(s, FALSE) => StoresCircle(ClickDraft(s))
            /\ RightClick(s) => StoresCircle(RightClickDraft(s))
            /\ DoubleClick(s) => StoresCircle(DoubleClickDraft(s))
     /\ \A i \in DOMAIN allGeometries' :
          allGeometries'[i].kind = "circle" => allGeometries'[i].radiusMeters >= 1]_vars

\* a circle session has finished on two primary-clicks at the same position
C24_Witness ==
  /\ last.op = "leftClick" /\ last.mode = "circle" /\ last.clicks = 2
  /\ StoredRecord.radiusMeters = 1

\* q lies in the geographic rectangle spanned by the drag positions a and b
InDraggedRegion(q, a, b) ==
  /\ (a[1] <= q[1] /\ q[1] <= b[1]) \/ (b[1] <= q[1] /\ q[1] <= a[1])
  /\ (a[2] <= q[2] /\ q[2] <= b[2]) \/ (b[2] <= q[2] /\ q[2] <= a[2])

\* C25: when a rectangle drag is released, every registered shape with at least
\* one vertex, corner or centre inside the dragged geographic rectangle is in
\* the selection set.
C25_RectangleSelectsContainedShapes ==
  [][(RectangleUp /\ isDrawing) =>
       \A i \in DOMAIN storedGeometries :
         (\E j \in DOMAIN RecVerts(storedGeometries[i].record) :
            InDraggedRegion(RecVerts(storedGeometries[i].record)[j].p,
                            dragPositions[1], dragPositions[2]))
           => storedGeometries[i].entity \in selectedEntities']_vars

\* a rectangle drag was released and a drawn point is selected
C25_Witness ==
  /\ last.op = "rectangleUp"
  /\ \E i \in DOMAIN storedGeometries :
       /\ storedGeometries[i].record.kind = "point"
       /\ storedGeometries[i].entity \in selectedEntities

\* the even-odd rule: the point pt / k is inside the polygon when the ray from
\* it crosses an odd number of the polygon's edges
EvenOdd(pt, k, polygon) ==
  Cardinality({i \in DOMAIN polygon :
                 intersect(pt, k, polygon[i],
                           polygon[IF i = 1 THEN Len(polygon) ELSE i - 1])}) % 2 = 1
\* the screen-space boundary of a polygon or rectangle record
ScreenBoundary(record) == PointsOf(record.positions \o record.corners)
\* no vertex of the record lies inside the lasso
NoVertexInLasso(record, lasso) ==
  \A i \in DOMAIN ScreenBoundary(record) : ~EvenOdd(ScreenBoundary(record)[i], 1, lasso)
\* the centroid of the lasso or one of its vertices lies inside the record's
\* screen-space boundary
LassoReachesInto(record, lasso) ==
  \/ EvenOdd(<<sumOf(lasso, 1), sumOf(lasso, 2)>>, Len(lasso), ScreenBoundary(record))
  \/ \E i \in DOMAIN lasso : EvenOdd(lasso[i], 1, ScreenBoundary(record))

\* C26: when a lasso of at least 3 vertices is released, every registered
\* polygon or rectangle none of whose vertices lies inside the lasso, but inside
\* whose screen-space boundary the lasso's centroid or one of the lasso's
\* vertices lies (by the even-odd rule), is in the selection set.
C26_LassoSelectsShapesItReachesInto ==
  [][(LassoUp /\ isDrawing /\ Len(dragPositions) >= 3) =>
       \A i \in DOMAIN storedGeometries :
         (/\ storedGeometries[i].record.kind \in {"polygon", "rectangle"}
          /\ NoVertexInLasso(storedGeometries[i].record, dragPositions)
          /\ LassoReachesInto(storedGeometries[i].record, dragPositions))
           => storedGeometries[i].entity \in selectedEntities']_vars

\* the shape stored at i was selected by the release of a lasso that has none of
\* the shape's vertices inside
SelectedThroughBoundary(i) ==
  /\ storedGeometries[i].entity \in selectedEntities
  /\ NoVertexInLasso(storedGeometries[i].record, last.region)

\* a lasso lying inside a rectangle and a lasso crossing into a polygon were
\* released
C26_Witness ==
  /\ last.op = "lassoUp" /\ last.clicks >= 3
  /\ \E i \in DOMAIN storedGeometries :
       /\ storedGeometries[i].record.kind \in {"polygon", "rectangle"}
       /\ SelectedThroughBoundary(i)

\* the step stores exactly one record, with its entity and its vertices
AddsOneRecord ==
  /\ allGeometries' = Append(allGeometries, allGeometries'[Len(allGeometries')])
  /\ allVertices' = allVertices \o RecVerts(allGeometries'[Len(allGeometries')])
  /\ storedGeometries' = Append(storedGeometries,
                                [entity |-> activeEntity,
                                 record |-> allGeometries'[Len(allGeometries')]])
  /\ entityToRecord' = entityToRecord
                         \cup {[entity |-> activeEntity,
                                record |-> allGeometries'[Len(allGeometries')]]}
  /\ Cardinality(entityToRecord') = Cardinality(entityToRecord) + 1

\* C27: every draw-session event that does not finish the session (pointer-move,
\* a primary-click that only locks a vertex, an ignored finish request, cancel, a
\* new draw call) leaves allGeometries, entityToRecord, storedGeometries and the
\* flat vertex index unchanged; the event that finishes a session adds exactly
\* one record, with the session's entity and the record's vertices.
C27_RegistryChangesOnlyAtFinish ==
  [][IF last'.op \in Finishing THEN AddsOneRecord ELSE UNCHANGED regVars]_vars

\* a session has locked two vertices and nothing is registered
C27_Witness ==
  /\ handler /\ clicks >= 2 /\ Len(draftPositions) >= 3
  /\ allGeometries = <<>> /\ allVertices = <<>> /\ storedGeometries = <<>> /\ entityToRecord = {}

\* C28: no event changes a record stored in the registry: every record of
\* allGeometries, storedGeometries and entityToRecord that is still stored after
\* a step (pointer events, later sessions that snap onto its vertices, selection,
\* deletion of other shapes) has the vertices, corners, centre and radius it had
\* before the step.
C28_StoredRecordsAreFixed ==
  [][/\ \A i \in DOMAIN allGeometries, j \in DOMAIN allGeometries' :
          allGeometries'[j].rid = allGeometries[i].rid => allGeometries'[j] = allGeometries[i]
     /\ \A i \in DOMAIN storedGeometries, j \in DOMAIN storedGeometries' :
          storedGeometries'[j].entity = storedGeometries[i].entity
            => storedGeometries'[j] = storedGeometries[i]
     /\ \A m \in entityToRecord, n \in entityToRecord' : n.entity = m.entity => n = m]_vars

\* a later session has snapped its draft onto a vertex object of a stored record
C28_Witness ==
  /\ handler /\ allGeometries # <<>>
  /\ \E i \in DOMAIN draftPositions, j \in DOMAIN allGeometries :
       draftPositions[i].ref \in RefsOf(RecVerts(allGeometries[j]))

RegisteredEntities == {storedGeometries[i].entity : i \in DOMAIN storedGeometries}
\* a step of a SelectionManager operation: enable, disable, clearSelection, a
\* pointer click or an event of a rectangle or lasso drag
SelectionStep ==
  \/ \E mode \in SelectionModes : EnableBelow(mode, MaxSelectEnables)
  \/ \E c \in BOOLEAN : DisableSelect(c)
  \/ ClearSelection
  \/ \E e \in Pickable \cup {NoEntity} : PointerClick(e)
  \/ \E s \in SelectInputs : RectangleDown(s) \/ RectangleMove(s) \/ LassoDown(s) \/ LassoMove(s)
  \/ RectangleUp
  \/ LassoUp

\* C30: no SelectionManager operation removes a shape entity from the rendered
\* entities (a drag release removes only its own preview); a committed delete,
\* by the Delete key or by the coordinator's call, removes exactly the selected
\* entities from the rendered entities, leaves the selection empty and none of
\* them registered; disableSelect(true) empties the selection and
\* disableSelect(false) leaves it unchanged.
C30_SelectionNeverRemovesShapes ==
  [][/\ SelectionStep =>
          /\ viewerEntities \ viewerEntities' \subseteq {previewEntity} \ RegisteredEntities
          /\ UNCHANGED <<storedGeometries, allGeometries, allVertices, entityToRecord>>
     /\ (DeleteKey \/ DeleteSelected) =>
          /\ viewerEntities' = viewerEntities \ selectedEntities
          /\ selectedEntities' = {}
          /\ \A i \in DOMAIN storedGeometries' :
               storedGeometries'[i].entity \notin selectedEntities
     /\ DisableSelect(TRUE) => selectedEntities' = {}
     /\ DisableSelect(FALSE) => selectedEntities' = selectedEntities]_vars

\* the selected shapes were deleted while another registered shape stays
\* rendered
C30_Witness ==
  /\ last.op \in Deleting
  /\ last.entities # {}
  /\ last.entities \cap viewerEntities = {}
  /\ RegisteredEntities \cap viewerEntities # {}

\* C31: during a lasso drag every two consecutive captured vertices are more
\* than the threshold apart, and a pointer-move appends its world position when
\* it is farther than the threshold from the last captured vertex and leaves the
\* lasso unchanged otherwise.
C31_LassoVerticesBeyondThreshold ==
  [][/\ selectHandler' = "lasso" =>
          \A i \in 1..(Len(dragPositions') - 1) :
            Dist2(dragPositions'[i], dragPositions'[i + 1]) > LassoThreshold * LassoThreshold
     /\ \A s \in ThresholdInputs :
          (LassoMove(s) /\ isDrawing /\ dragPositions # <<>>) =>
            dragPositions' = (IF Dist2(dragPositions[Len(dragPositions)], s) > 100
                              THEN Append(dragPositions, s) ELSE dragPositions)]_vars

\* a lasso drag has captured three vertices
C31_Witness ==
  selectHandler = "lasso" /\ isDrawing /\ Len(dragPositions) >= 3

\* the edges of a vertex list in the order they are examined
EdgeSeq(verts, closed) ==
  [i \in 1..(IF Len(verts) = 0 THEN 0 ELSE Len(verts) - 1) |-> <<verts[i], verts[i + 1]>>]
    \o (IF closed /\ Len(verts) >= 2 THEN <<<<verts[Len(verts)], verts[1]>>>> ELSE <<>>)
\* each edge on its own: <<>> when it is not within tolerance of the pixel s
EdgeHits(edges, s, guess, o) ==
  [i \in DOMAIN edges |-> checkEdge(<<>>, edges[i][1], edges[i][2], s, o.pixelTolerance, guess.ref)]
\* the candidates of one finished shape, each on its own
GeometryHits(geom, s, guess, o) ==
  IF geom.kind \in {"polyline", "polygon", "rectangle"}
  THEN EdgeHits(EdgeSeq(geom.positions \o geom.corners, geom.kind # "polyline"), s, guess, o)
  ELSE IF geom.kind = "circle" /\ o.toCirclePerimeter
       THEN <<checkCircle(<<>>, geom, s, guess, o.pixelTolerance, guess.ref)>>
       ELSE <<>>
RECURSIVE GeometriesHits(_, _, _, _)
GeometriesHits(i, s, guess, o) ==
  IF i > Len(allGeometries) THEN <<>>
  ELSE GeometryHits(allGeometries[i], s, guess, o) \o GeometriesHits(i + 1, s, guess, o)
\* all candidates within tolerance, in the order they are examined
BoundaryHits(s, guess, anchorVerts, o) ==
  SelectSeq((IF o.toEdges THEN EdgeHits(EdgeSeq(anchorVerts, FALSE), s, guess, o) ELSE <<>>)
              \o GeometriesHits(1, s, guess, o),
            LAMBDA c : c # <<>>)
\* the first of the candidates at the smallest distance
FirstMinimum(hits) ==
  IF hits = <<>> THEN <<>>
  ELSE <<hits[CHOOSE k \in DOMAIN hits :
                /\ \A j \in DOMAIN hits : ~FracLess(hits[j][1].n, hits[j][1].d,
                                                    hits[k][1].n, hits[k][1].d)
                /\ \A j \in 1..(k - 1) : FracLess(hits[k][1].n, hits[k][1].d,
                                                  hits[j][1].n, hits[j][1].d)][1].pos>>
\* an edge within tolerance has a screen length and its snap point lies between
\* its end points
ClampedOnEdges(edges, s, guess, o) ==
  \A i \in DOMAIN edges :
    EdgeHits(edges, s, guess, o)[i] # <<>> =>
      /\ edges[i][1].p # edges[i][2].p
      /\ \A c \in 1..2 :
           LET x == EdgeHits(edges, s, guess, o)[i][1].pos.p[c]
           IN \/ edges[i][1].p[c] <= x /\ x <= edges[i][2].p[c]
              \/ edges[i][2].p[c] <= x /\ x <= edges[i][1].p[c]
SnapsToMinimum(s, guess, anchorVerts) ==
  /\ snapToBoundaries(s, guess, anchorVerts, opts)
       = FirstMinimum(BoundaryHits(s, guess, anchorVerts, opts))
  /\ ClampedOnEdges(EdgeSeq(anchorVerts, FALSE), s, guess, opts)
  /\ \A i \in DOMAIN allGeometries :
       ClampedOnEdges(EdgeSeq(allGeometries[i].positions \o allGeometries[i].corners,
                              allGeometries[i].kind # "polyline"), s, guess, opts)

ListsRegisteredOnce(result) ==
  /\ Range(result) \subseteq RegisteredEntities
  /\ \A i, j \in DOMAIN result : result[i] = result[j] => i = j
\* the point and polyline shapes selected after the step are those with a vertex
\* in the region
SelectsByVertex(InRegion(_)) ==
  \A i \in DOMAIN storedGeometries :
    storedGeometries[i].record.kind \in {"point", "polyline"} =>
      (storedGeometries[i].entity \in selectedEntities'
         <=> \E j \in DOMAIN storedGeometries[i].record.positions :
               InRegion(storedGeometries[i].record.positions[j].p))
InDragRectangle(q) == InDraggedRegion(q, dragPositions[1], dragPositions[2])
InLasso(q) == EvenOdd(q, 1, dragPositions)

\* C33: when a rectangle or lasso drag is released, a registered point or
\* polyline is selected if and only if at least one of its vertices lies inside
\* the region, and the list of hit entities holds registered shapes only, each at
\* most once.
C33_PointsAndPolylinesHitByVertex ==
  [][/\ (RectangleUp /\ isDrawing /\ Len(dragPositions) >= 2) =>
          /\ SelectsByVertex(InDragRectangle)
          /\ ListsRegisteredOnce(getEntitiesInRectangle(dragRectangle(dragPositions)))
     /\ (LassoUp /\ isDrawing /\ Len(dragPositions) >= 3) =>
          /\ SelectsByVertex(InLasso)
          /\ ListsRegisteredOnce(getEntitiesInPolygon(dragPositions))]_vars

\* a lasso crossed by a polyline that has no vertex inside it was released and
\* the polyline is not selected
C33_Witness ==
  /\ last.op = "lassoUp" /\ last.clicks >= 3
  /\ \E i \in DOMAIN storedGeometries :
       /\ storedGeometries[i].record.kind = "polyline"
       /\ storedGeometries[i].entity \notin selectedEntities
       /\ PointsOf(storedGeometries[i].record.positions) = <<<<0, 0>>, <<30, 25>>>>
       /\ EvenOdd(<<12, 10>>, 1, last.region)

\* C34: the promise of a draw call whose session has ended (by a finish, Escape,
\* the cancel operation or a superseding draw call) is settled: it is pending
\* only while its session is capturing, and the step that finishes a session
\* leaves it resolved.
C34_EndedSessionsAreSettled ==
  /\ promise = "pending" => handler
  /\ last.op \in Finishing => promise = "resolved"
  /\ last.op \in {"escape", "cancelDraw"} => promise = "rejected"

\* C35: in every reachable state the entities that carry the highlight style are
\* exactly the members of the selection set.
C35_HighlightedIffSelected == highlighted = selectedEntities

\* a rectangle or lasso release has replaced a selection by another one
C35_Witness ==
  /\ last.op \in {"rectangleUp", "lassoUp"}
  /\ selectedEntities # {}
  /\ RegisteredEntities \ selectedEntities # {}

\* C36: every member of the selection set is a rendered entity.
C36_SelectionIsRendered == selectedEntities \subseteq viewerEntities


\* C37: after the release that ends a rectangle or lasso drag, the dashed preview
\* entity created at the press is no longer among the rendered entities,
\* whatever the number of captured vertices.
C37_PreviewRemovedAtRelease ==
  last.op \in {"rectangleUp", "lassoUp"} => last.entities \cap viewerEntities = {}

\* C38: whenever no rectangle or lasso drag is in progress, camera rotate,
\* translate and zoom are enabled, also after a drag was interrupted between
\* press and release by a mode switch, by disableSelect or by a draw start.
C38_CameraEnabledOutsideDrag == ~isDrawing => camera = CameraEnabled

\* the options record that differs from base in exactly the fields given
OnlyGivenChanged(base, given, result) ==
  /\ DOMAIN result = DOMAIN base
  /\ \A f \in DOMAIN base : result[f] = IF f \in DOMAIN given THEN given[f] ELSE base[f]

\* a step in which a draw session starts
SessionStarts == handler' /\ activeEntity' # activeEntity

\* C39: draw options are fixed per session at its start. A step that does not
\* start or end a session leaves the session's options alone, so setOptions
\* while Capturing changes only the defaults; a step that starts a session
\* leaves the stored defaults alone and gives the session the defaults
\* overridden by the per-call fields; and a step that changes the defaults
\* changes only the fields of some partial options object, the others keeping
\* their values.
C39_OptionsFixedPerSession ==
  [][/\ (handler /\ handler' /\ ~SessionStarts) => opts' = opts
     /\ SessionStarts =>
          /\ defaultOptions' = defaultOptions
          /\ \E o \in CallOptions : OnlyGivenChanged(defaultOptions, o, opts')
     /\ defaultOptions' # defaultOptions =>
          /\ UNCHANGED drawVars
          /\ \E o \in OptionInputs : OnlyGivenChanged(defaultOptions, o, defaultOptions')]_vars

\* C39 witness: a session Capturing with snapping and auto-close on while the
\* defaults, changed by two partial setOptions calls since its start, have both
\* off and still the 20 px tolerance
C39_Witness ==
  /\ handler /\ opts.enabled /\ opts.autoClosePolygon
  /\ ~defaultOptions.enabled /\ ~defaultOptions.autoClosePolygon
  /\ defaultOptions.pixelTolerance = DefaultPixelTolerance
  /\ opts.pixelTolerance = DefaultPixelTolerance

\* the finished entity, whose position binding returns the draft handed to
\* finishDrawing, renders exactly the vertex positions of the stored record
RendersRecord(draft) ==
  {draft[i].p : i \in DOMAIN draft}
    = {allGeometries'[Len(allGeometries')].positions[i].p :
         i \in DOMAIN allGeometries'[Len(allGeometries')].positions}
LineFinishes == activeMode \in {"polyline", "polygon"} /\ last'.op \in Finishing

\* C40: under every event that finishes a polyline or polygon session, the
\* position sequence the finished entity renders has the same set of vertex
\* positions as the positions of its record, with no extra cursor position.
C40_FinishedEntityRendersRecord ==
  [][LineFinishes =>
       \A s \in DrawInputs :
         /\ LeftClick(s, FALSE) => RendersRecord(ClickDraft(s))
         /\ RightClick(s) => RendersRecord(RightClickDraft(s))
         /\ DoubleClick(s) => RendersRecord(DoubleClickDraft(s))]_vars
====
